---- MODULE Spec2Model ----
(***************************************************************************)
(* EMSolver2D (src/src/solver.js): the fixed-step 2D TEz field integrator, *)
(* its accumulator-driven step(), reset(), setSources() and the per-step   *)
(* advance.                                                                *)
(*                                                                         *)
(* Numbers.  JavaScript doubles are modelled as fixed-point integers:      *)
(*   time        in ticks,            Units.tick ticks  = 1 second         *)
(*   length      in length units,     Units.len  units  = 1 world unit     *)
(*   field/signal values,             Units.field       = 1.0              *)
(*   sigma (loss) values,             Units.sigma       = 1.0 / second     *)
(*   wave speed,                      Units.speed       = 1.0 unit/second  *)
(*   relative permittivity,           Units.eps         = 1.0              *)
(*   PML band width,                  Units.width       = 1 cell           *)
(*   angles      in eighths of a turn (sin/cos are table driven)           *)
(* A quotient is rounded to the nearest integer (RDiv).  A store into a    *)
(* Float32Array keeps fewer digits than the double that was computed: it   *)
(* is modelled by F32, rounding to a multiple of Units.f32.                *)
(* The non-finite doubles are the values NaN, PosInf and NegInf.           *)
(***************************************************************************)
EXTENDS Integers, Sequences, FiniteSets, TLC

Units ==
    [tick |-> 5, len |-> 10, field |-> 1000, sigma |-> 100, speed |-> 20, eps |-> 8, f32 |-> 4,
     width |-> 2]

\* ---------------------------------------------------------------- bounds
\* how many calls that change the solver (step with an accepted elapsed value,
\* setSources, setBarrierFromShapes) one behaviour makes; reset and ignored calls are free
MaxCalls == 3

\* ------------------------------------------------------- program constants
maxSubstepsPerFrame == 8
DefaultCfl == 45
DefaultAvgTau == 35
MinAvgTau == 5
DefaultPmlWidth == 24
MinPmlWidth == 16
MaxPmlWidth == 32
PmlOrder == 3

\* ---------------------------------------------------------------- numbers
Num(v) == [kind |-> "num", v |-> v]
NaN == [kind |-> "nan", v |-> 0]
PosInf == [kind |-> "inf", v |-> 1]
NegInf == [kind |-> "inf", v |-> -1]

\* Number.isFinite
IsFinite(x) == x.kind = "num"

Min(a, b) == IF a <= b THEN a ELSE b
Max(a, b) == IF a >= b THEN a ELSE b
Abs(a) == IF a < 0 THEN -a ELSE a

\* clamp(value, min, max) = Math.min(max, Math.max(min, value))
clamp(value, lo, hi) == Min(hi, Max(lo, value))

\* n / d rounded to the nearest integer, halves away from zero (d > 0)
RDiv(n, d) == IF n >= 0 THEN (2 * n + d) \div (2 * d) ELSE -((2 * (-n) + d) \div (2 * d))

\* the value a Float32Array slot holds after the double v is stored into it
F32(v) == RDiv(v, Units.f32) * Units.f32

\* Math.sqrt on a non-negative value, rounded down
RECURSIVE SqrtSearch(_, _, _)
SqrtSearch(n, lo, hi) ==
    IF lo >= hi THEN lo
    ELSE LET mid == (lo + hi + 1) \div 2
         IN IF mid * mid <= n THEN SqrtSearch(n, mid, hi) ELSE SqrtSearch(n, lo, mid - 1)
Sqrt(n) ==
    IF n <= 0 THEN 0
    ELSE IF n < 256 THEN SqrtSearch(n, 0, 15)
    ELSE IF n < 65536 THEN SqrtSearch(n, 16, 255)
    ELSE IF n < 16777216 THEN SqrtSearch(n, 256, 4095)
    ELSE SqrtSearch(n, 4096, 46340)

\* Math.sin / Math.cos of an angle given in eighths of a turn, times Units.field
SinTable == <<0, 707, 1000, 707, 0, -707, -1000, -707>>
Sin8(a) == SinTable[(a % 8) + 1]
Cos8(a) == Sin8(a + 2)

\* Math.exp(-q / 8) times Units.field, q >= 0: exp(-a) * exp(-b / 8) with q = 8 * a + b
ExpTable == <<1000, 368, 135, 50, 18, 7, 2, 1, 0>>
ExpEighthTable == <<1000, 882, 779, 687, 607, 535, 472, 417>>
ExpNeg8(q) ==
    IF q <= 0 THEN 1000
    ELSE IF q > 64 THEN 0
    ELSE RDiv(ExpTable[(q \div 8) + 1] * ExpEighthTable[(q % 8) + 1], 1000)

\* ------------------------------------------------------------ construction
\* an option the caller did not pass, and option ?? d
NoOption == [kind |-> "none", v |-> 0]
Option(o, d) == IF o.kind = "num" THEN o.v ELSE d

\* the configurations a solver is constructed with: domain (grid, world size,
\* origin), solver settings (speed, attenuation) and the options cfl and pmlWidth
Configs ==
    { [nx |-> 3, ny |-> 3, worldX |-> 26, worldY |-> 26, originX |-> -13, originY |-> -13,
       speed |-> 20, attenuation |-> 0, cfl |-> NoOption, pmlWidth |-> NoOption],
      [nx |-> 6, ny |-> 6, worldX |-> 100, worldY |-> 100, originX |-> -50, originY |-> -50,
       speed |-> 20, attenuation |-> 10, cfl |-> NoOption, pmlWidth |-> NoOption] }

GridNx(c) == Max(2, c.nx)
GridNy(c) == Max(2, c.ny)
GridDx(c) == RDiv(c.worldX, Max(1, GridNx(c) - 1))
GridDy(c) == RDiv(c.worldY, Max(1, GridNy(c) - 1))
WaveSpeed(c) == clamp(c.speed, (5 * Units.speed) \div 100, 50 * Units.speed)

\* cfl = 0.45 unless the option is passed, in hundredths
Cfl(c) == Option(c.cfl, DefaultCfl)

\* a time step that leaves out the square root of two
FixedDtNoRoot(c) ==
    RDiv(Cfl(c) * Min(GridDx(c), GridDy(c)) * Units.speed * Units.tick,
         WaveSpeed(c) * 100 * Units.len)

\* dt = (cfl * minCell) / (waveSpeed * Math.SQRT2), in ticks: the nearest value the
\* arithmetic can represent; Math.SQRT2 (1.4142135623730951) is not below the root of 2
FixedDt(c) ==
    RDiv(Cfl(c) * Min(GridDx(c), GridDy(c)) * Units.speed * Units.tick * 100,
         WaveSpeed(c) * 14143 * Units.len)

\* this.loss = clamp(solver.attenuation ?? 0, 0, 5)
Loss(c) == clamp(c.attenuation, 0, 5 * Units.sigma)

\* a band width that takes the request without the limit of the grid
PmlWidthUnlimited(c) ==
    clamp(Option(c.pmlWidth, DefaultPmlWidth * Units.width), MinPmlWidth * Units.width,
          MaxPmlWidth * Units.width)

\* usablePmlWidth, in width units (the request need not be a whole number of cells)
PmlWidth(c) ==
    LET maxPmlWidth == ((Min(GridNx(c), GridNy(c)) \div 2) - 1) * Units.width
        requestedPmlWidth == clamp(Option(c.pmlWidth, DefaultPmlWidth * Units.width),
                                   MinPmlWidth * Units.width, MaxPmlWidth * Units.width)
    IN Max(0, Min(requestedPmlWidth, maxPmlWidth))

CellsOf(w, h) == 0 .. (w * h - 1)
EdgeDist(k, n) == Min(k, n - 1 - k)

\* a mask that also takes the cells at the distance of the width
buildPmlMaskInclusive(w, h, width) ==
    IF width <= 0 THEN <<>>
    ELSE [i \in CellsOf(w, h) |->
            IF EdgeDist(i % w, w) * Units.width <= width
               \/ EdgeDist(i \div w, h) * Units.width <= width THEN 1 ELSE 0]

\* buildPmlMask: null (no mask, modelled as the empty function) when the width is 0
buildPmlMask(w, h, width) ==
    IF width <= 0 THEN <<>>
    ELSE [i \in CellsOf(w, h) |->
            IF EdgeDist(i % w, w) * Units.width < width
               \/ EdgeDist(i \div w, h) * Units.width < width THEN 1 ELSE 0]

\* buildPmlSigma: sigmaMax * (rampX^p + rampY^p); null when the width is 0.  A float
\* keeps a positive product positive: a value below the least one the arithmetic here
\* represents is stored as that least value
PmlSigmaMax(width, ddx, ddy, waveSpeed) ==
    LET thickness == width * Min(ddx, ddy)
    IN RDiv((PmlOrder + 1) * 1382 * waveSpeed * Units.len * Units.width,
            2 * thickness * Units.speed)
Cube(r) == r * r * r
buildPmlSigma(w, h, width, ddx, ddy, waveSpeed) ==
    IF width <= 0 THEN <<>>
    ELSE [i \in CellsOf(w, h) |->
            LET distX == EdgeDist(i % w, w) * Units.width
                distY == EdgeDist(i \div w, h) * Units.width
                rampX == IF distX < width THEN width - distX ELSE 0
                rampY == IF distY < width THEN width - distY ELSE 0
                sigmaVal == PmlSigmaMax(width, ddx, ddy, waveSpeed) * (Cube(rampX) + Cube(rampY))
            IN IF sigmaVal > 0 THEN Max(Units.f32, F32(RDiv(sigmaVal, Cube(width))))
               ELSE F32(RDiv(sigmaVal, Cube(width)))]

\* ------------------------------------------------------------------- state
VARIABLES
    cfg,            \* this.domain and this.solverSettings
    nx, ny, dx, dy, \* grid
    dt,             \* fixed time-step
    waveSpeed,      \* the clamped speed (this.eps = 1 / waveSpeed^2, this.mu = 1)
    loss,           \* this.loss
    pmlMask, pmlSigma,
    sources,        \* the active source list
    epsRGrid, sigmaGrid, metalMask,
    ex, ey, hz,
    instantaneous, avgPower, avgMagnitude,
    time,           \* this.time
    accumulator,
    stats,          \* this.stats
    pc,             \* "idle", or "loop" inside step()'s while loop
    substepCount,   \* step()'s local counter
    call,           \* the last call made: operation, argument, and the accumulator, the time
                    \* and whether any field was non-zero before it
    trace,          \* what the last fixed advance did: evaluation time, stencil results
    hist,           \* since the last reset: accepted elapsed sum, number of advances, whether
                    \* every elapsed was at most 8*dt, times at which advances evaluated sources
    calls,          \* how many calls counted by MaxCalls were made
    app             \* the application around the solver: the store's state, the keys of the
                    \* solver and of the shapes applied last, and what the last event did

configVars == <<cfg, nx, ny, dx, dy, dt, waveSpeed, loss, pmlMask, pmlSigma>>
materialVars == <<epsRGrid, sigmaGrid, metalMask>>
fieldVars == <<ex, ey, hz, instantaneous, avgPower, avgMagnitude>>
clockVars == <<time, accumulator, stats>>
appVars == <<app>>
vars == <<configVars, sources, materialVars, fieldVars, clockVars, pc, substepCount, call,
          trace, hist, calls, appVars>>

Cells == CellsOf(nx, ny)
HasMask(m) == DOMAIN m # {}
IsMetal(i) == HasMask(metalMask) /\ metalMask[i] = 1

\* a band test that finds no cell in the band
InPmlNever(i) == FALSE

InPml(i) == HasMask(pmlMask) /\ pmlMask[i] = 1
OnRing(i) == (i % nx) \in {0, nx - 1} \/ (i \div nx) \in {0, ny - 1}

\* ----------------------------------------------------------------- sources
\* Math.round(n / d), d > 0: halves round up
Round(n, d) == (2 * n + d) \div (2 * d)

\* a conversion that does not clamp the sample to the grid
indexFromWorldUnclamped(px, py, c, w, h) ==
    LET ix == Round((px - c.originX) * (w - 1), c.worldX)
        iy == Round((py - c.originY) * (h - 1), c.worldY)
    IN iy * w + ix

\* indexFromWorld(position, domain, nx, ny)
indexFromWorld(px, py, c, w, h) ==
    LET ix == Min(w - 1, Max(0, Round((px - c.originX) * (w - 1), c.worldX)))
        iy == Min(h - 1, Max(0, Round((py - c.originY) * (h - 1), c.worldY)))
    IN iy * w + ix

\* v || d for a string-valued option: the empty string stands for a missing value
OrElse(v, d) == IF v = "" THEN d ELSE v

\* the entry setSources makes for one source object
ActiveSource(src, c, w, h) ==
    [index |-> indexFromWorld(src.x, src.y, c, w, h),
     amplitude |-> src.amplitude,
     phase |-> src.phase,
     frequency |-> src.frequency,
     waveform |-> OrElse(src.waveform, "cw"),
     pulseWidth |-> src.pulseWidth,
     pulseDelay |-> src.pulseDelay,
     injection |-> OrElse(src.injection, "soft"),
     excite |-> OrElse(src.excite, "hz"),
     polarizationAngle |-> src.polarizationAngle]

\* a map over the list that does not filter it
RECURSIVE FilterMapAll(_, _, _, _)
FilterMapAll(list, c, w, h) ==
    IF list = <<>> THEN <<>>
    ELSE <<ActiveSource(Head(list), c, w, h)>> \o FilterMapAll(Tail(list), c, w, h)

\* sources.filter(active).map(...)
RECURSIVE FilterMap(_, _, _, _)
FilterMap(list, c, w, h) ==
    IF list = <<>> THEN <<>>
    ELSE IF Head(list).active
         THEN <<ActiveSource(Head(list), c, w, h)>> \o FilterMap(Tail(list), c, w, h)
         ELSE FilterMap(Tail(list), c, w, h)

\* evalSourceSignal(source, t), times Units.field; frequency in eighths of a turn per
\* tick, phase in eighths of a turn, pulseWidth and pulseDelay in ticks
evalSourceSignal(source, t) ==
    LET f == Max(0, source.frequency)
        phase == source.phase
        t0 == source.pulseDelay
        w == source.pulseWidth
        tau == t - t0
        kind == OrElse(source.waveform, "cw")
    IN IF kind = "gaussian"
       THEN LET q == IF w <= 0 THEN (IF tau = 0 THEN 0 ELSE 65) ELSE RDiv(4 * tau * tau, w * w)
            IN RDiv(ExpNeg8(q) * Sin8(f * tau + phase), Units.field)
       ELSE IF kind = "ricker"
       THEN LET phaseShift == IF f > 0 THEN RDiv(phase, f) ELSE 0
                tt == tau + phaseShift
                a2 == RDiv(9870 * (f * tt) * (f * tt), 64)
            IN RDiv((Units.field - 2 * a2) * ExpNeg8(RDiv(8 * a2, Units.field)), Units.field)
       ELSE Sin8(f * t + phase)

\* the legacy phase's signal: amplitude * Math.sin(TAU * frequency * t + phase)
LegacySignal(source, t) == source.amplitude * Sin8(source.frequency * t + source.phase)

\* ----------------------------------------------------------- fixed advance
\* a = sigmaE * dt / (2 * epsCell) at cell i, in sigma units (Units.sigma = 1.0), with
\* sigmaE = (sigma ? sigma[idx] : 0) + sigmaMat + loss and epsCell = epsBase * epsRGrid[idx]
LossA(i) ==
    LET sigmaE == (IF HasMask(pmlSigma) THEN pmlSigma[i] ELSE 0) + sigmaGrid[i] + loss
    IN RDiv(sigmaE * dt * waveSpeed * waveSpeed * Units.eps,
            Units.tick * Units.speed * Units.speed * 2 * epsRGrid[i])

\* c1 * v with c1 = (1 - a) / (1 + a)
Damp(i, v) == RDiv((Units.sigma - LossA(i)) * v, Units.sigma + LossA(i))

\* a function value with every entry computed once (the arrays are not lazy)
Array(f) == IF f = f THEN f ELSE f

\* phase 1: zero fields in the metal region
ZeroMetal(f) == [i \in Cells |-> IF IsMetal(i) THEN 0 ELSE f[i]]

\* a stencil that reads the Hz of the next cell, which the same pass writes
HzStencilReadsNeighbour(e1, e2, h, i) ==
    LET dEx_dy == RDiv((e1[i + nx] - e1[i]) * Units.len, Max(1, dy))
        dEy_dx == RDiv((e2[i + 1] - e2[i]) * Units.len, Max(1, dx))
        curlE == dEx_dy - dEy_dx
    IN Damp(i, h[i + 1]) + RDiv(dt * Units.sigma * curlE, Units.tick * (Units.sigma + LossA(i)))

\* phase 2: hz[idx] = ch1 * hz[idx] + ch2 * curlE for x < nx - 1, y < ny - 1, not metal
HzStencil(e1, e2, h, i) ==
    LET dEx_dy == RDiv((e1[i + nx] - e1[i]) * Units.len, Max(1, dy))
        dEy_dx == RDiv((e2[i + 1] - e2[i]) * Units.len, Max(1, dx))
        curlE == dEx_dy - dEy_dx
    IN Damp(i, h[i]) + RDiv(dt * Units.sigma * curlE, Units.tick * (Units.sigma + LossA(i)))
UpdateHz(e1, e2, h) ==
    [i \in Cells |->
        IF (i % nx) < nx - 1 /\ (i \div nx) < ny - 1 /\ ~IsMetal(i)
        THEN F32(HzStencil(e1, e2, h, i)) ELSE h[i]]

\* phase 3: hz[source.index] += signal for every active source
RECURSIVE LegacyInject(_, _, _)
LegacyInject(h, list, t) ==
    IF list = <<>> THEN h
    ELSE LET s == Head(list)
         IN LegacyInject([h EXCEPT ![s.index] = F32(@ + LegacySignal(s, t))], Tail(list), t)

\* phase 4: ex, ey from curl(hz) on the interior cells that are not metal
\* ce2 * d with ce2 = (dt / epsCell) / (1 + a)
CurlGain(i, d) ==
    RDiv(RDiv(dt * waveSpeed * waveSpeed * Units.eps * d,
              Units.tick * Units.speed * Units.speed * epsRGrid[i]) * Units.sigma,
         Units.sigma + LossA(i))
Interior(i) == (i % nx) \in 1 .. (nx - 2) /\ (i \div nx) \in 1 .. (ny - 2)
ExStencil(e1, h, i) ==
    Damp(i, e1[i]) + CurlGain(i, RDiv((h[i] - h[i - nx]) * Units.len, Max(1, dy)))
EyStencil(e2, h, i) ==
    Damp(i, e2[i]) - CurlGain(i, RDiv((h[i] - h[i - 1]) * Units.len, Max(1, dx)))
UpdateEx(e1, h) ==
    [i \in Cells |-> IF Interior(i) /\ ~IsMetal(i) THEN F32(ExStencil(e1, h, i)) ELSE e1[i]]
UpdateEy(e2, h) ==
    [i \in Cells |-> IF Interior(i) /\ ~IsMetal(i) THEN F32(EyStencil(e2, h, i)) ELSE e2[i]]

\* an injection that adds the signal whatever the injection mode is
InjectOneAdds(f, source, t) ==
    LET idx == source.index
        s == source.amplitude * evalSourceSignal(source, t)
        a == source.polarizationAngle \div 45
        sx == RDiv(s * Cos8(a), Units.field)
        sy == RDiv(s * Sin8(a), Units.field)
        Put(g, v) == [g EXCEPT ![idx] = F32(@ + v)]
    IN IF IsMetal(idx) \/ InPml(idx) THEN f
       ELSE IF source.excite = "hz" THEN [f EXCEPT !.hz = Put(@, s)]
       ELSE IF source.excite = "ex" THEN [f EXCEPT !.ex = Put(@, s)]
       ELSE IF source.excite = "ey" THEN [f EXCEPT !.ey = Put(@, s)]
       ELSE [f EXCEPT !.ex = Put(@, sx), !.ey = Put(@, sy)]

\* phase 5: inject every active source into its field; f = [ex, ey, hz]
InjectOne(f, source, t) ==
    LET idx == source.index
        s == source.amplitude * evalSourceSignal(source, t)
        hard == source.injection = "hard"
        a == source.polarizationAngle \div 45
        sx == RDiv(s * Cos8(a), Units.field)
        sy == RDiv(s * Sin8(a), Units.field)
        Put(g, v) == [g EXCEPT ![idx] = F32(IF hard THEN v ELSE @ + v)]
    IN IF IsMetal(idx) \/ InPml(idx) THEN f
       ELSE IF source.excite = "hz" THEN [f EXCEPT !.hz = Put(@, s)]
       ELSE IF source.excite = "ex" THEN [f EXCEPT !.ex = Put(@, s)]
       ELSE IF source.excite = "ey" THEN [f EXCEPT !.ey = Put(@, s)]
       ELSE [f EXCEPT !.ex = Put(@, sx), !.ey = Put(@, sy)]
RECURSIVE InjectSources(_, _, _)
InjectSources(f, list, t) ==
    IF list = <<>> THEN f ELSE InjectSources(InjectOne(f, Head(list), t), Tail(list), t)

\* an edge phase that leaves the fields as they are
ZeroRingNothing(g) == g

\* phase 6: zero fields at the edges
ZeroRing(g) == [i \in Cells |-> IF OnRing(i) THEN 0 ELSE g[i]]

\* phase 7: magnitudes and moving average; alpha = Math.min(1, dt / avgTau)
AvgTau == Max(MinAvgTau, DefaultAvgTau)
Blend(old, power) ==
    IF dt * 100 >= AvgTau * Units.tick THEN power
    ELSE old + RDiv(dt * 100 * (power - old), AvgTau * Units.tick)
Magnitude(e1, e2, i) == Sqrt(e1[i] * e1[i] + e2[i] * e2[i])

\* sum and max of the per-cell values of the cells outside the PML band
RECURSIVE SumRange(_, _, _)
SumRange(value, lo, hi) ==
    IF lo > hi THEN 0
    ELSE IF lo = hi THEN value[lo]
    ELSE SumRange(value, lo, (lo + hi) \div 2) + SumRange(value, ((lo + hi) \div 2) + 1, hi)
SumValues(value, n) == SumRange(value, 0, n - 1)
RECURSIVE MaxRange(_, _, _)
MaxRange(value, lo, hi) ==
    IF lo > hi THEN 0
    ELSE IF lo = hi THEN Max(0, value[lo])
    ELSE Max(MaxRange(value, lo, (lo + hi) \div 2), MaxRange(value, ((lo + hi) \div 2) + 1, hi))
MaxValues(value, n) == MaxRange(value, 0, n - 1)

\* an advance that evaluates its sources after moving the clock
EvalTimeAfter == time + dt

\* const t = this.time: the time at which an advance evaluates its sources
EvalTime == time

\* an advance that zeroes the outer ring before it injects the sources
AdvanceWithRingFirst(list) ==
    LET t == EvalTime
        ex1 == Array(ZeroMetal(ex))
        ey1 == Array(ZeroMetal(ey))
        hz1 == Array(ZeroMetal(hz))
        hz2 == Array(UpdateHz(ex1, ey1, hz1))
        hz3 == Array(LegacyInject(hz2, list, t))
        ex4 == Array(UpdateEx(ex1, hz3))
        ey4 == Array(UpdateEy(ey1, hz3))
        f5 == InjectSources([ex |-> Array(ZeroRing(ex4)), ey |-> Array(ZeroRing(ey4)),
                             hz |-> Array(ZeroRing(hz3))], list, t)
        ex6 == f5.ex
        ey6 == f5.ey
        hz6 == f5.hz
        value == Array([i \in Cells |-> IF InPml(i) THEN 0 ELSE Magnitude(ex6, ey6, i)])
        nextAvg == Array([i \in Cells |->
                            IF InPml(i) THEN 0 ELSE F32(Blend(avgPower[i], value[i] * value[i]))])
        n == nx * ny
    IN [ex |-> ex6, ey |-> ey6, hz |-> hz6,
        instantaneous |-> [i \in Cells |-> F32(value[i])],
        avgPower |-> nextAvg,
        avgMagnitude |-> [i \in Cells |-> IF InPml(i) THEN 0 ELSE F32(Sqrt(nextAvg[i]))],
        time |-> time + dt,
        stats |-> [time |-> time + dt,
                   maxInstantaneous |-> MaxValues(value, n),
                   meanInstantaneous |-> RDiv(SumValues(value, n), n)],
        trace |-> [evalT |-> t, hzStencil |-> hz2, exStencil |-> ex4, eyStencil |-> ey4,
                   hzInjected |-> f5.hz, exInjected |-> f5.ex, eyInjected |-> f5.ey]]

\* #advance(dt) with this.sources = list: the state after one fixed advance
AdvanceWith(list) ==
    LET t == EvalTime
        ex1 == Array(ZeroMetal(ex))
        ey1 == Array(ZeroMetal(ey))
        hz1 == Array(ZeroMetal(hz))
        hz2 == Array(UpdateHz(ex1, ey1, hz1))
        hz3 == Array(LegacyInject(hz2, list, t))
        ex4 == Array(UpdateEx(ex1, hz3))
        ey4 == Array(UpdateEy(ey1, hz3))
        f5 == InjectSources([ex |-> ex4, ey |-> ey4, hz |-> hz3], list, t)
        ex6 == Array(ZeroRing(f5.ex))
        ey6 == Array(ZeroRing(f5.ey))
        hz6 == Array(ZeroRing(f5.hz))
        value == Array([i \in Cells |-> IF InPml(i) THEN 0 ELSE Magnitude(ex6, ey6, i)])
        nextAvg == Array([i \in Cells |->
                            IF InPml(i) THEN 0 ELSE F32(Blend(avgPower[i], value[i] * value[i]))])
        n == nx * ny
    IN [ex |-> ex6, ey |-> ey6, hz |-> hz6,
        instantaneous |-> [i \in Cells |-> F32(value[i])],
        avgPower |-> nextAvg,
        avgMagnitude |-> [i \in Cells |-> IF InPml(i) THEN 0 ELSE F32(Sqrt(nextAvg[i]))],
        time |-> time + dt,
        stats |-> [time |-> time + dt,
                   maxInstantaneous |-> MaxValues(value, n),
                   meanInstantaneous |-> RDiv(SumValues(value, n), n)],
        trace |-> [evalT |-> t, hzStencil |-> hz2, exStencil |-> ex4, eyStencil |-> ey4,
                   hzInjected |-> f5.hz, exInjected |-> f5.ex, eyInjected |-> f5.ey]]

\* #advance(dt): the state after one fixed advance
Advance == AdvanceWith(sources)

\* --------------------------------------------------------------- materials
Floor(n, d) == n \div d
Ceil(n, d) == -((-n) \div d)
CeilSqrt(n) == IF Sqrt(n) * Sqrt(n) = n THEN Sqrt(n) ELSE Sqrt(n) + 1

\* shape.material || { preset: "drywall", epsR: 2.7, sigma: 0.02 }
Drywall == [preset |-> "drywall", epsR |-> 22, sigma |-> 2]
MaterialOf(shape) == IF shape.hasMaterial THEN shape.material ELSE Drywall

\* is the sample (x, y) of a w-by-h grid inside the shape; lengths in length units
InCircle(shape, c, ddx, ddy, x, y) ==
    LET radius == Max(0, Option(shape.radius, 0))
        dxc == c.originX + x * ddx - shape.cx
        dyc == c.originY + y * ddy - shape.cy
    IN dxc * dxc + dyc * dyc <= radius * radius
InRectangle(shape, c, ddx, ddy, x, y) ==
    LET a == shape.angle \div 45
        dxc == c.originX + x * ddx - shape.cx
        dyc == c.originY + y * ddy - shape.cy
        localX == Cos8(a) * dxc + Sin8(a) * dyc
        localY == Cos8(a) * dyc - Sin8(a) * dxc
    IN 2 * Abs(localX) <= shape.width * Units.field
       /\ 2 * Abs(localY) <= shape.height * Units.field

\* the bounding box in index space of a shape of bounding radius r
InBox(shape, r, c, w, h, ddx, ddy, x, y) ==
    LET ix0 == clamp(Floor(shape.cx - r - c.originX, ddx), 0, w - 1)
        ix1 == clamp(Ceil(shape.cx + r - c.originX, ddx), 0, w - 1)
        iy0 == clamp(Floor(shape.cy - r - c.originY, ddy), 0, h - 1)
        iy1 == clamp(Ceil(shape.cy + r - c.originY, ddy), 0, h - 1)
    IN x \in ix0 .. ix1 /\ y \in iy0 .. iy1

\* a rasterization that does not skip a shape without extent
CoversUnguarded(shape, c, w, h, x, y) ==
    LET ddx == RDiv(c.worldX, Max(1, w - 1))
        ddy == RDiv(c.worldY, Max(1, h - 1))
    IN IF shape.kind = "circle"
       THEN InCircle(shape, c, ddx, ddy, x, y)
       ELSE shape.kind = "rectangle" /\ InRectangle(shape, c, ddx, ddy, x, y)

\* the cells one shape of the list writes
Covers(shape, c, w, h, x, y) ==
    LET ddx == RDiv(c.worldX, Max(1, w - 1))
        ddy == RDiv(c.worldY, Max(1, h - 1))
    IN IF shape.kind = "circle"
       THEN /\ Max(0, Option(shape.radius, 0)) > 0
            /\ InBox(shape, Max(0, Option(shape.radius, 0)), c, w, h, ddx, ddy, x, y)
            /\ InCircle(shape, c, ddx, ddy, x, y)
       ELSE IF shape.kind = "rectangle" /\ shape.hasSize
       THEN /\ shape.width > 0 /\ shape.height > 0
            /\ InBox(shape, CeilSqrt(shape.width * shape.width + shape.height * shape.height + 3) \div 2 + 1,
                     c, w, h, ddx, ddy, x, y)
            /\ InRectangle(shape, c, ddx, ddy, x, y)
       ELSE FALSE

\* an iteration that never clears a metal bit once it is set
RasterShapeKeepsMetal(g, shape, c, w, h) ==
    LET mat == MaterialOf(shape)
        epsVal == F32(clamp(mat.epsR, Units.eps, 20 * Units.eps))
        sigVal == F32(clamp(mat.sigma, 0, 200 * Units.sigma))
        isMetal == mat.preset = "metal"
        mask == IF isMetal /\ g.metalMask = <<>> THEN [i \in CellsOf(w, h) |-> 0]
                ELSE g.metalMask
        hit == [i \in CellsOf(w, h) |-> Covers(shape, c, w, h, i % w, i \div w)]
    IN [epsR |-> [i \in CellsOf(w, h) |-> IF hit[i] THEN epsVal ELSE g.epsR[i]],
        sigma |-> [i \in CellsOf(w, h) |-> IF hit[i] THEN sigVal ELSE g.sigma[i]],
        metalMask |-> IF mask = <<>> THEN <<>>
                      ELSE [i \in CellsOf(w, h) |->
                              IF hit[i] /\ isMetal THEN 1 ELSE mask[i]]]

\* one iteration of buildMaterialGrids' loop over the shapes; g = [epsR, sigma, metalMask]
RasterShape(g, shape, c, w, h) ==
    LET mat == MaterialOf(shape)
        epsVal == F32(clamp(mat.epsR, Units.eps, 20 * Units.eps))
        sigVal == F32(clamp(mat.sigma, 0, 200 * Units.sigma))
        isMetal == mat.preset = "metal"
        mask == IF isMetal /\ g.metalMask = <<>> THEN [i \in CellsOf(w, h) |-> 0]
                ELSE g.metalMask
        hit == [i \in CellsOf(w, h) |-> Covers(shape, c, w, h, i % w, i \div w)]
    IN [epsR |-> [i \in CellsOf(w, h) |-> IF hit[i] THEN epsVal ELSE g.epsR[i]],
        sigma |-> [i \in CellsOf(w, h) |-> IF hit[i] THEN sigVal ELSE g.sigma[i]],
        metalMask |-> IF mask = <<>> THEN <<>>
                      ELSE [i \in CellsOf(w, h) |->
                              IF hit[i] THEN (IF isMetal THEN 1 ELSE 0) ELSE mask[i]]]

RECURSIVE RasterShapes(_, _, _, _, _)
RasterShapes(g, shapes, c, w, h) ==
    IF shapes = <<>> THEN g
    ELSE RasterShapes(RasterShape(g, Head(shapes), c, w, h), Tail(shapes), c, w, h)

\* buildMaterialGrids(domain, nx, ny, shapes), for a list that is not empty
buildMaterialGrids(c, w, h, shapes) ==
    RasterShapes([epsR |-> [i \in CellsOf(w, h) |-> F32(Units.eps)],
                  sigma |-> [i \in CellsOf(w, h) |-> 0],
                  metalMask |-> <<>>], shapes, c, w, h)

\* ------------------------------------------------------------------ inputs
ElapsedInputs == {NaN, PosInf, NegInf, Num(-2), Num(0), Num(1), Num(4), Num(50)}

Src(active, x, y, inj, exc, wave, angle) ==
    [active |-> active, x |-> x, y |-> y, amplitude |-> 2, phase |-> 1, frequency |-> 1,
     waveform |-> wave, pulseWidth |-> 2, pulseDelay |-> 1, injection |-> inj, excite |-> exc,
     polarizationAngle |-> angle]

SourceLists ==
    { <<>>,
      <<Src(TRUE, 0, 0, "hard", "hz", "", 0)>>,
      <<Src(TRUE, 0, 0, "hard", "e", "cw", 45)>>,
      <<Src(TRUE, -30, 0, "hard", "hz", "cw", 0)>>,
      <<Src(TRUE, 0, 0, "", "", "cw", 0)>>,
      <<Src(TRUE, 0, 0, "soft", "ey", "gaussian", 0)>>,
      <<Src(TRUE, -30, 0, "soft", "e", "cw", 45)>>,
      <<Src(FALSE, 0, 0, "hard", "hz", "cw", 0), Src(TRUE, 0, 0, "soft", "ex", "ricker", 0),
        Src(TRUE, -30, 0, "soft", "hz", "cw", 0)>> }

Circle(cx, cy, r, mat) ==
    [kind |-> "circle", cx |-> cx, cy |-> cy, radius |-> Num(r), hasSize |-> FALSE, width |-> 0,
     height |-> 0, angle |-> 0, hasMaterial |-> TRUE, material |-> mat]
Rectangle(cx, cy, w, h, angle, mat) ==
    [kind |-> "rectangle", cx |-> cx, cy |-> cy, radius |-> NoOption, hasSize |-> TRUE, width |-> w,
     height |-> h, angle |-> angle, hasMaterial |-> TRUE, material |-> mat]
Metal == [preset |-> "metal", epsR |-> 8, sigma |-> 0]
Concrete == [preset |-> "concrete", epsR |-> 48, sigma |-> 12]

ShapeLists ==
    { <<>>,
      <<Circle(5, 5, 8, Metal)>>,
      <<Rectangle(20, 0, 30, 60, 0, Concrete), Circle(-30, -10, 5, Metal)>> }

\* -------------------------------------------------------------- application
\* the store's state when the application starts; createSolverFromState passes the
\* domain and the solver settings only, so cfg has no cfl and no pmlWidth option
FirstStore(c) ==
    [cfg |-> c, model |-> "em2d", sources |-> <<>>, shapes |-> <<>>, running |-> TRUE,
     timeScale |-> Num(4), mode |-> "2d"]

\* JSON.stringify({ domain, solver, model }): the text is the same exactly when these
\* values are
getSolverKey(st) ==
    [domain |-> [nx |-> st.cfg.nx, ny |-> st.cfg.ny, worldX |-> st.cfg.worldX,
                 worldY |-> st.cfg.worldY, originX |-> st.cfg.originX,
                 originY |-> st.cfg.originY],
     solver |-> [speed |-> st.cfg.speed, attenuation |-> st.cfg.attenuation],
     model |-> st.model]

\* JSON.stringify of one shape: a property that is missing leaves no text
JsonShape(shape) ==
    [kind |-> shape.kind, cx |-> shape.cx, cy |-> shape.cy, radius |-> shape.radius,
     size |-> IF shape.hasSize THEN <<shape.width, shape.height>> ELSE <<>>,
     angle |-> shape.angle,
     material |-> IF shape.hasMaterial THEN <<shape.material>> ELSE <<>>]

\* a key of the shapes that does not tell one list from another
getShapesKeyBlind(st) == <<>>

\* JSON.stringify(state.shapes || [])
getShapesKey(st) == [k \in 1 .. Len(st.shapes) |-> JsonShape(st.shapes[k])]

\* lines 43-46: currentState, solverKey, shapesKey; the solver was created from the state
FirstApp(c) ==
    [state |-> FirstStore(c), solverKey |-> getSolverKey(FirstStore(c)),
     shapesKey |-> getShapesKey(FirstStore(c)), event |-> "start", recreated |-> TRUE,
     rasterized |-> TRUE, stepped |-> FALSE]

\* ----------------------------------------------------------------- actions
NoHist == [sum |-> 0, advances |-> 0, small |-> TRUE, evalTs |-> <<>>]
NoTrace == [evalT |-> -1, hzStencil |-> <<>>, exStencil |-> <<>>, eyStencil |-> <<>>,
            hzInjected |-> <<>>, exInjected |-> <<>>, eyInjected |-> <<>>]
Call(op, e) ==
    [op |-> op, elapsed |-> e, accBefore |-> accumulator, timeBefore |-> time,
     dirtyBefore |-> \E i \in Cells : hz[i] # 0 \/ ex[i] # 0 \/ ey[i] # 0 \/ avgPower[i] # 0,
     mapBefore |-> \E i \in Cells : epsRGrid[i] # F32(Units.eps) \/ sigmaGrid[i] # 0 \/ IsMetal(i),
     shapes |-> <<>>, passed |-> call.passed, given |-> call.given]

\* the record of the construction
NewCall ==
    [op |-> "new", elapsed |-> Num(0), accBefore |-> 0, timeBefore |-> 0, dirtyBefore |-> FALSE,
     mapBefore |-> FALSE, shapes |-> <<>>, passed |-> <<>>, given |-> <<>>]

\* new Float32Array(size); the statistics of a new solver
FreshArray(c) == [i \in CellsOf(GridNx(c), GridNy(c)) |-> 0]
FreshStats == [time |-> 0, maxInstantaneous |-> 0, meanInstantaneous |-> 0]

\* new EMSolver2D(config)
Init ==
    /\ cfg \in Configs
    /\ nx = GridNx(cfg)
    /\ ny = GridNy(cfg)
    /\ dx = GridDx(cfg)
    /\ dy = GridDy(cfg)
    /\ waveSpeed = WaveSpeed(cfg)
    /\ dt = FixedDt(cfg)
    /\ loss = Loss(cfg)
    /\ pmlSigma = buildPmlSigma(nx, ny, PmlWidth(cfg), dx, dy, waveSpeed)
    /\ pmlMask = buildPmlMask(nx, ny, PmlWidth(cfg))
    /\ sources = <<>>
    /\ epsRGrid = [i \in Cells |-> F32(Units.eps)]
    /\ sigmaGrid = FreshArray(cfg)
    /\ metalMask = <<>>
    /\ ex = FreshArray(cfg)
    /\ ey = FreshArray(cfg)
    /\ hz = FreshArray(cfg)
    /\ instantaneous = FreshArray(cfg)
    /\ avgPower = FreshArray(cfg)
    /\ avgMagnitude = FreshArray(cfg)
    /\ time = 0
    /\ accumulator = 0
    /\ stats = FreshStats
    /\ pc = "idle"
    /\ substepCount = 0
    /\ call = NewCall
    /\ trace = NoTrace
    /\ hist = NoHist
    /\ calls = 0
    /\ app = FirstApp(cfg)

\* a test of the argument that lets zero and negative values through
AcceptedAnyFinite(e) == IsFinite(e)

\* step()'s test of its argument: !Number.isFinite(deltaSeconds) || deltaSeconds <= 0
Accepted(e) == ~(~IsFinite(e) \/ e.v <= 0)

\* step(deltaSeconds) with a value that is not finite or not positive: returns at once
StepIgnored(e) ==
    /\ pc = "idle"
    /\ ~Accepted(e)
    /\ call' = Call("stepIgnored", Num(0))
    /\ UNCHANGED <<appVars, configVars, sources, materialVars, fieldVars, clockVars, pc, substepCount,
                   trace, hist, calls>>

\* step(deltaSeconds): the accumulator takes the elapsed time and the loop is entered
StepEnter(e) ==
    /\ pc = "idle"
    /\ Accepted(e)
    /\ calls < MaxCalls
    /\ calls' = calls + 1
    /\ accumulator' = accumulator + e.v
    /\ substepCount' = 0
    /\ pc' = "loop"
    /\ call' = Call("step", e)
    /\ hist' = [hist EXCEPT !.sum = @ + e.v, !.small = @ /\ e.v <= maxSubstepsPerFrame * dt]
    /\ UNCHANGED <<appVars, configVars, sources, materialVars, fieldVars, time, stats, trace>>

\* a loop condition without the cap on the number of advances
LoopContinuesUncapped == accumulator >= dt

\* a loop condition that stops while one whole step is still accumulated
LoopContinuesStrict == accumulator > dt /\ substepCount < maxSubstepsPerFrame

\* the while loop's condition
LoopContinues == accumulator >= dt /\ substepCount < maxSubstepsPerFrame

\* an advance that does not take its step out of the accumulator
DrainedNothing == accumulator

\* this.accumulator -= dt
Drained == accumulator - dt

\* one iteration of step()'s while loop
StepAdvance ==
    /\ pc = "loop"
    /\ LoopContinues
    /\ \E next \in {Advance} :
          /\ ex' = next.ex
          /\ ey' = next.ey
          /\ hz' = next.hz
          /\ instantaneous' = next.instantaneous
          /\ avgPower' = next.avgPower
          /\ avgMagnitude' = next.avgMagnitude
          /\ time' = next.time
          /\ stats' = next.stats
          /\ trace' = next.trace
          /\ hist' = [hist EXCEPT !.advances = @ + 1, !.evalTs = Append(@, next.trace.evalT)]
    /\ accumulator' = Drained
    /\ substepCount' = substepCount + 1
    /\ UNCHANGED <<appVars, configVars, sources, materialVars, pc, call, calls>>

\* a loop exit that keeps the whole backlog
ClampAccumulatorOff == accumulator

\* the loop's exit: the accumulator is clamped to maxSubstepsPerFrame steps
ClampAccumulator ==
    IF accumulator >= dt /\ substepCount >= maxSubstepsPerFrame
       /\ accumulator > dt * maxSubstepsPerFrame
    THEN dt * maxSubstepsPerFrame
    ELSE accumulator

\* step() returns
StepReturn ==
    /\ pc = "loop"
    /\ ~LoopContinues
    /\ accumulator' = ClampAccumulator
    /\ pc' = "idle"
    /\ UNCHANGED <<appVars, configVars, sources, materialVars, fieldVars, time, stats, substepCount,
                   call, trace, hist, calls>>

\* a fill that leaves the array as it was
ZeroFillNothing(f) == f

\* array.fill(0)
ZeroFill(f) == [i \in DOMAIN f |-> 0]

\* a reset of the statistics that forgets the two field statistics
ResetStatsTimeOnly(st) == [st EXCEPT !.time = 0]

\* this.stats.time = 0; this.stats.maxInstantaneous = 0; this.stats.meanInstantaneous = 0
ResetStats(st) == [st EXCEPT !.time = 0, !.maxInstantaneous = 0, !.meanInstantaneous = 0]

\* reset()
Reset ==
    /\ pc = "idle"
    /\ time' = 0
    /\ accumulator' = 0
    /\ stats' = ResetStats(stats)
    /\ ex' = ZeroFill(ex)
    /\ ey' = ZeroFill(ey)
    /\ hz' = ZeroFill(hz)
    /\ instantaneous' = ZeroFill(instantaneous)
    /\ avgPower' = ZeroFill(avgPower)
    /\ avgMagnitude' = ZeroFill(avgMagnitude)
    /\ call' = Call("reset", Num(0))
    /\ hist' = NoHist
    /\ trace' = NoTrace
    /\ UNCHANGED <<appVars, configVars, sources, materialVars, pc, substepCount, calls>>

\* a setSources that also restarts the simulation clock
SetSourcesRestarting(list) ==
    /\ pc = "idle"
    /\ calls < MaxCalls
    /\ sources' = FilterMap(list, cfg, nx, ny)
    /\ call' = [Call("setSources", Num(0)) EXCEPT !.passed = list, !.given = list]
    /\ calls' = calls + 1
    /\ time' = 0
    /\ UNCHANGED <<appVars, configVars, materialVars, fieldVars, accumulator, stats, pc,
                   substepCount, trace, hist>>

\* setSources(sources)
SetSources(list) ==
    /\ pc = "idle"
    /\ calls < MaxCalls
    /\ sources' = FilterMap(list, cfg, nx, ny)
    /\ call' = [Call("setSources", Num(0)) EXCEPT !.passed = list, !.given = list]
    /\ calls' = calls + 1
    /\ UNCHANGED <<appVars, configVars, materialVars, fieldVars, clockVars, pc, substepCount, trace, hist>>

\* a fill that leaves the array as it is
FillNothing(a, v) == a

\* array.fill(v)
Fill(a, v) == [i \in DOMAIN a |-> v]

\* setBarrierFromShapes(shapes); a missing list takes the branch of the empty one
SetBarrierFromShapes(shapes) ==
    /\ pc = "idle"
    /\ calls < MaxCalls
    /\ IF shapes = <<>>
       THEN /\ epsRGrid' = Fill(epsRGrid, F32(Units.eps))
            /\ sigmaGrid' = Fill(sigmaGrid, 0)
            /\ metalMask' = <<>>
       ELSE \E grids \in {buildMaterialGrids(cfg, nx, ny, shapes)} :
            /\ epsRGrid' = grids.epsR
            /\ sigmaGrid' = grids.sigma
            /\ metalMask' = grids.metalMask
    /\ call' = [Call("setBarrierFromShapes", Num(0)) EXCEPT !.shapes = shapes]
    /\ calls' = calls + 1
    /\ UNCHANGED <<appVars, configVars, sources, fieldVars, clockVars, pc, substepCount, trace, hist>>

Next ==
    \/ \E e \in ElapsedInputs : StepIgnored(e)
    \/ \E e \in ElapsedInputs : StepEnter(e)
    \/ StepAdvance
    \/ StepReturn
    \/ Reset
    \/ \E list \in SourceLists : SetSources(list)
    \/ \E shapes \in ShapeLists : SetBarrierFromShapes(shapes)

Spec == Init /\ [][Next]_vars

\* ------------------------------------------------------------------ claims
\* step(deltaSeconds), the whole call
Step(e) == StepIgnored(e) \/ StepEnter(e)

\* step() has returned and no other call was made since
AfterStep == pc = "idle" /\ call.op = "step"

\* the accumulated time the returned step() call started its loop with
Backlog == call.accBefore + call.elapsed.v

\* C1: a step call whose elapsed time is not finite, or is zero or negative, changes
\* nothing: the accumulator, the simulation time, every field and average array and
\* the statistics keep their values, and no advance is made (the loop is not entered).
C1_IgnoredStepChangesNothing ==
    [][\A e \in ElapsedInputs :
          ((~IsFinite(e) \/ e.v <= 0) /\ Step(e))
             => /\ UNCHANGED <<accumulator, time, stats, fieldVars>>
                /\ UNCHANGED <<sources, materialVars, configVars>>
                /\ pc' = "idle"
                /\ hist'.advances = hist.advances]_vars

\* an ignored step call was made on a solver that has advanced and holds a backlog
C1_Witness ==
    /\ call.op = "stepIgnored"
    /\ time > 0
    /\ accumulator > 0
    /\ \E i \in Cells : hz[i] # 0

\* C2: a step call with finite positive elapsed time e, made with accumulator a, makes
\* exactly min(8, floor((a + e) / dt)) advances and then returns; it never makes a
\* ninth advance, and its loop terminates: every pass of the loop either returns or
\* counts one more advance, and the count is at most 8.
C2_AdvanceCount ==
    /\ [](substepCount <= maxSubstepsPerFrame)
    /\ [](AfterStep => substepCount = Min(maxSubstepsPerFrame, Backlog \div dt))
    /\ [](pc = "loop" => accumulator = Backlog - substepCount * dt)
    /\ [][pc = "loop" => (pc' = "idle" \/ (substepCount' = substepCount + 1
                                            /\ hist'.advances = hist.advances + 1))]_vars

\* a call was cut off at eight advances with time for more left over; another call made
\* fewer than eight
C2_Witness ==
    /\ AfterStep
    /\ substepCount = maxSubstepsPerFrame
    /\ Backlog \div dt > maxSubstepsPerFrame

\* C3: when a step call has returned, 0 <= accumulator <= 8 * dt; if the loop stopped at
\* the cap with more than 8 * dt still accumulated, the accumulator is exactly 8 * dt.
C3_AccumulatorBounds ==
    /\ pc = "idle" => (0 <= accumulator /\ accumulator <= maxSubstepsPerFrame * dt)
    /\ (AfterStep /\ substepCount = maxSubstepsPerFrame
          /\ Backlog - maxSubstepsPerFrame * dt > maxSubstepsPerFrame * dt)
       => accumulator = maxSubstepsPerFrame * dt

\* a call returned from the cap with more than 8 * dt left: the clamp acted
C3_Witness ==
    /\ AfterStep
    /\ substepCount = maxSubstepsPerFrame
    /\ Backlog - maxSubstepsPerFrame * dt > maxSubstepsPerFrame * dt
    /\ accumulator = maxSubstepsPerFrame * dt

\* accepted elapsed time that the clamp threw away since the last reset
Dropped == hist.sum - time - accumulator

\* C4: simulation time plus accumulator never exceeds the sum of the accepted elapsed
\* times (the simulation does not run ahead of the wall clock); once a call has
\* returned the backlog is at most 8 * dt, and time the clamp dropped is never
\* replayed: the dropped amount only grows until the next reset.
C4_NeverAhead ==
    /\ [](time + accumulator <= hist.sum)
    /\ [](pc = "idle" => accumulator <= maxSubstepsPerFrame * dt)
    /\ [][Dropped' >= Dropped \/ hist' = NoHist]_vars

\* after an overload that dropped time, a later call advanced the solver again
C4_Witness ==
    /\ AfterStep
    /\ Dropped > 0
    /\ call.accBefore = maxSubstepsPerFrame * dt
    /\ substepCount > 0

\* C5: if every accepted elapsed time since the last reset was at most 8 * dt, then
\* after each call the sum of the accepted elapsed times minus the simulation time is
\* exactly the accumulator, and 0 <= accumulator < dt: nothing was dropped.
C5_NoLossUnderLoad ==
    (pc = "idle" /\ hist.small)
       => /\ hist.sum - stats.time = accumulator
          /\ hist.sum - time = accumulator
          /\ 0 <= accumulator
          /\ accumulator < dt

\* several small calls were made, advances happened and a remainder is carried
C5_Witness ==
    /\ AfterStep
    /\ hist.small
    /\ hist.advances >= 3
    /\ call.accBefore > 0
    /\ accumulator > 0

\* C6: the k-th advance since the last reset evaluates the sources at (k - 1) * dt and
\* leaves the statistics' time at k * dt, however the elapsed time was cut into step
\* calls; the simulation time grows by exactly dt with every advance and never
\* decreases between resets.
C6_FixedTimeGrid ==
    /\ [](/\ Len(hist.evalTs) = hist.advances
          /\ \A k \in 1..Len(hist.evalTs) : hist.evalTs[k] = (k - 1) * dt)
    /\ [](stats.time = hist.advances * dt /\ time = stats.time)
    /\ [][/\ hist'.advances = hist.advances + 1 => time' = time + dt
          /\ time' >= time \/ (call'.op = "reset" /\ time' = 0)]_vars

\* more advances than one call can make were spread over several step calls
C6_Witness ==
    /\ AfterStep
    /\ hist.advances > maxSubstepsPerFrame
    /\ sources # <<>>
    /\ call.accBefore > 0

AllZero(f) == \A i \in DOMAIN f : f[i] = 0

\* C7: reset() zeroes Ex, Ey, Hz, the instantaneous magnitude, the averaged power and
\* the averaged magnitude, sets the time, the accumulator and all three statistics to
\* 0, and leaves the sources, the material grids, the PML arrays and dt, nx, ny, dx,
\* dy as they were.
C7_ResetEffect ==
    [][call'.op = "reset"
          => /\ AllZero(ex') /\ AllZero(ey') /\ AllZero(hz')
             /\ AllZero(instantaneous') /\ AllZero(avgPower') /\ AllZero(avgMagnitude')
             /\ DOMAIN ex' = Cells /\ DOMAIN avgPower' = Cells
             /\ time' = 0 /\ accumulator' = 0
             /\ stats'.time = 0 /\ stats'.maxInstantaneous = 0
             /\ stats'.meanInstantaneous = 0
             /\ UNCHANGED <<sources, epsRGrid, sigmaGrid, metalMask, pmlMask, pmlSigma>>
             /\ UNCHANGED <<dt, nx, ny, dx, dy>>]_vars

\* reset() was called on a solver with sources and a metal barrier whose fields were
\* non-zero and whose clock and accumulator had moved
C7_Witness ==
    /\ call.op = "reset"
    /\ call.dirtyBefore
    /\ call.timeBefore > 0
    /\ call.accBefore > 0
    /\ sources # <<>>
    /\ HasMask(metalMask)

\* the per-run state of the solver: fields, averages, clock, accumulator, statistics
RunState == <<ex, ey, hz, instantaneous, avgPower, avgMagnitude, time, accumulator, stats, pc>>

\* the per-run state a newly constructed solver of this configuration has
FreshRunState ==
    <<FreshArray(cfg), FreshArray(cfg), FreshArray(cfg), FreshArray(cfg), FreshArray(cfg),
      FreshArray(cfg), 0, 0, FreshStats, "idle">>

\* C8: reset() is idempotent, and after it the solver is in the state of a newly
\* constructed solver given the same configuration, sources and shapes: the per-run
\* state is the constructor's, so the same later step calls give the same states.
C8_ResetIsFresh ==
    /\ [](call.op = "reset" => RunState = FreshRunState)
    /\ [][(call.op = "reset" /\ call'.op = "reset")
            => UNCHANGED <<RunState, sources, materialVars, configVars>>]_vars

\* reset() was called after a run with two active sources had left fields and statistics
C8_Witness ==
    /\ call.op = "reset"
    /\ call.dirtyBefore
    /\ Len(sources) = 2
    /\ call.timeBefore >= 2 * dt

\* an advance of the running or just returned step() call was the last thing to touch
\* the fields: the sources and the materials are those the advance used
AfterAdvance == substepCount > 0 /\ (pc = "loop" \/ call.op = "step")

\* the solver has one active source, of the given injection mode
SingleSource(mode) == Len(sources) = 1 /\ sources[1].injection = mode

\* amplitude * signal(t) of the single source at the time the last advance used
SourceValue == sources[1].amplitude * evalSourceSignal(sources[1], trace.evalT)

\* the parts of a rotated-E source's value along x and y
SourceValueX == RDiv(SourceValue * Cos8(sources[1].polarizationAngle \div 45), Units.field)
SourceValueY == RDiv(SourceValue * Sin8(sources[1].polarizationAngle \div 45), Units.field)

\* a cell in which an injected value does not survive the advance
Skipped(i) == IsMetal(i) \/ InPml(i) \/ OnRing(i)

\* the field the single source targets holds, at the source cell, the stored value of
\* base + amplitude * signal(t), base given per field
TargetHolds(baseHz, baseEx, baseEy) ==
    LET i == sources[1].index
        excite == sources[1].excite
    IN IF excite = "hz" THEN hz[i] = F32(baseHz + SourceValue)
       ELSE IF excite = "ex" THEN ex[i] = F32(baseEx + SourceValue)
       ELSE IF excite = "ey" THEN ey[i] = F32(baseEy + SourceValue)
       ELSE ex[i] = F32(baseEx + SourceValueX) /\ ey[i] = F32(baseEy + SourceValueY)

\* C9 as stated: with a single hard source, after every advance the targeted field at
\* the source cell equals amplitude * signal(t), wherever the source cell is.
C9_HardSourceAnywhere ==
    (AfterAdvance /\ SingleSource("hard")) => TargetHolds(0, 0, 0)

\* C9: with a single hard source whose cell is not metal, not in the PML band and not
\* on the outermost ring, after every advance the targeted field at the source cell
\* equals the stored (single precision) amplitude * signal(t), at the time t the
\* advance started from, whatever the stencil computed for the cell; a rotated-E
\* source leaves its cos and sin parts in Ex and Ey.
C9_HardSourceOverwrites ==
    (AfterAdvance /\ SingleSource("hard") /\ ~Skipped(sources[1].index))
       => TargetHolds(0, 0, 0)

\* a hard Hz source overwrote a stencil value that was neither zero nor the signal
C9_Witness ==
    /\ AfterAdvance
    /\ SingleSource("hard")
    /\ ~Skipped(sources[1].index)
    /\ sources[1].excite = "hz"
    /\ trace.hzStencil[sources[1].index] # 0
    /\ trace.hzStencil[sources[1].index] # hz[sources[1].index]
    /\ hz[sources[1].index] # 0

\* C10: with a single soft source, after every advance the targeted field at the
\* source cell equals the value the stencil update computed for that cell in that
\* advance plus amplitude * signal(t), with no other contribution (source cell not
\* metal, not in the PML band and not on the outermost ring).
C10_SoftSourceAddsOnce ==
    (AfterAdvance /\ SingleSource("soft") /\ ~Skipped(sources[1].index))
       => LET i == sources[1].index
          IN TargetHolds(trace.hzStencil[i], trace.exStencil[i], trace.eyStencil[i])

\* the sources the documented injection does not skip
Injecting(list) == SelectSeq(list, LAMBDA src : ~(IsMetal(src.index) \/ InPml(src.index)))

\* step() is about to make an advance
BeforeAdvance == pc = "loop" /\ LoopContinues

\* C11: a source whose cell is in the PML band or is a metal cell injects nothing into
\* Ex, Ey or Hz: every advance leaves the fields exactly as it would with those
\* sources taken out of the active list.
C11_SkippedSourcesInjectNothing ==
    (BeforeAdvance /\ Injecting(sources) # sources)
       => \A with \in {AdvanceWith(sources)} : \A without \in {AdvanceWith(Injecting(sources))} :
             with.ex = without.ex /\ with.ey = without.ey /\ with.hz = without.hz

\* C12: after every advance Ex, Ey and Hz are zero at every metal cell, for any material
\* map and any active sources, sources on metal cells included.
C12_MetalCellsZero ==
    AfterAdvance => \A i \in Cells : IsMetal(i) => (ex[i] = 0 /\ ey[i] = 0 /\ hz[i] = 0)

\* C13: after every advance Ex, Ey and Hz are zero on every cell of the outermost ring,
\* whatever sources, soft or hard and of any target, lie on the ring.
C13_RingZero ==
    AfterAdvance => \A i \in Cells : OnRing(i) => (ex[i] = 0 /\ ey[i] = 0 /\ hz[i] = 0)

\* a source on the ring was injected into Ex or Ey and into Hz by the advance, and the
\* ring is zero
C13_Witness ==
    /\ AfterAdvance
    /\ \E k \in 1..Len(sources) :
          /\ OnRing(sources[k].index)
          /\ trace.exInjected[sources[k].index] # 0
          /\ trace.hzInjected[sources[k].index] # 0
          /\ ex[sources[k].index] = 0

\* the PML band: the cells nearer than the band width to an edge
InBand(i) == Min(EdgeDist(i % nx, nx), EdgeDist(i \div nx, ny)) * Units.width < PmlWidth(cfg)

\* C14: in every reachable state the instantaneous magnitude, the averaged power and
\* the averaged magnitude are zero at every cell of the PML band, even when Ex or Ey
\* is not zero there.
C14_BandOutputsZero ==
    \A i \in Cells :
        InBand(i) => (instantaneous[i] = 0 /\ avgPower[i] = 0 /\ avgMagnitude[i] = 0)

\* the field is not zero at a cell of the band and energy was recorded outside it
C14_Witness ==
    /\ AfterAdvance
    /\ \E i \in Cells : InBand(i) /\ (ex[i] # 0 \/ ey[i] # 0)
    /\ \E i \in Cells : ~InBand(i) /\ avgPower[i] # 0

\* the magnitude of a cell outside the band, 0 inside it
OutsideValue == [i \in Cells |-> IF InPml(i) THEN 0 ELSE Magnitude(ex, ey, i)]
OutsideCount == Cardinality({i \in Cells : ~InPml(i)})

\* C15: after every advance the mean statistic is the sum of the magnitudes of the cells
\* outside the PML band divided by the number of those cells, and the max statistic is
\* their maximum.
C15_StatsOverOutsideCells ==
    AfterAdvance
       => /\ stats.meanInstantaneous = RDiv(SumValues(OutsideValue, nx * ny), OutsideCount)
          /\ stats.maxInstantaneous = MaxValues(OutsideValue, nx * ny)

\* ------------------------------------------------------------ construction
\* configurations the constructor is called with: grid counts below 2, cells that are
\* not square, speeds below, inside and above the clamp [0.05, 50], the cfl option
\* missing, below 1 and above 1, the pmlWidth option missing, below, inside and above
\* the clamp [16, 32] and not a whole number; the world size is positive
SmallConfigs ==
    { [nx |-> g[1], ny |-> g[2], worldX |-> w[1], worldY |-> w[2],
       originX |-> -(w[1] \div 2), originY |-> -(w[2] \div 2),
       speed |-> s, attenuation |-> 0, cfl |-> k, pmlWidth |-> NoOption] :
        g \in {<<1, 1>>, <<3, 5>>, <<4, 4>>, <<5, 3>>, <<8, 6>>},
        w \in {<<100, 100>>, <<150, 120>>, <<200, 200>>},
        s \in {0, 20, 40, 1200},
        k \in {NoOption, Num(90), Num(150)} }
BandConfigs ==
    { [nx |-> g[1], ny |-> g[2], worldX |-> 2 * g[1] - 2, worldY |-> 2 * g[2] - 2,
       originX |-> 1 - g[1], originY |-> 1 - g[2],
       speed |-> 1, attenuation |-> 0, cfl |-> NoOption, pmlWidth |-> r] :
        g \in {<<2, 7>>, <<3, 3>>, <<4, 9>>, <<5, 4>>, <<6, 6>>, <<7, 8>>},
        r \in {NoOption, Num(33)} }
        \cup
    { [nx |-> g[1], ny |-> g[2], worldX |-> 2 * g[1] - 2, worldY |-> 2 * g[2] - 2,
       originX |-> 1 - g[1], originY |-> 1 - g[2],
       speed |-> 1, attenuation |-> 0, cfl |-> NoOption, pmlWidth |-> r] :
        g \in {<<36, 38>>, <<66, 66>>}, r \in {NoOption, Num(33), Num(80)} }

\* the time step is kept in whole ticks: a configuration whose time step is below half
\* a tick has no counterpart in the model
CtorConfigs == {c \in SmallConfigs \cup BandConfigs : FixedDt(c) >= 1}

\* new EMSolver2D(config): a solver is constructed in place of the present one
Construct(c) ==
    /\ cfg' = c
    /\ nx' = GridNx(c)
    /\ ny' = GridNy(c)
    /\ dx' = GridDx(c)
    /\ dy' = GridDy(c)
    /\ waveSpeed' = WaveSpeed(c)
    /\ dt' = FixedDt(c)
    /\ loss' = Loss(c)
    /\ pmlSigma' = buildPmlSigma(GridNx(c), GridNy(c), PmlWidth(c), GridDx(c), GridDy(c),
                                 WaveSpeed(c))
    /\ pmlMask' = buildPmlMask(GridNx(c), GridNy(c), PmlWidth(c))
    /\ sources' = <<>>
    /\ epsRGrid' = [i \in CellsOf(GridNx(c), GridNy(c)) |-> F32(Units.eps)]
    /\ sigmaGrid' = FreshArray(c)
    /\ metalMask' = <<>>
    /\ ex' = FreshArray(c)
    /\ ey' = FreshArray(c)
    /\ hz' = FreshArray(c)
    /\ instantaneous' = FreshArray(c)
    /\ avgPower' = FreshArray(c)
    /\ avgMagnitude' = FreshArray(c)
    /\ time' = 0
    /\ accumulator' = 0
    /\ stats' = FreshStats
    /\ pc' = "idle"
    /\ substepCount' = 0
    /\ call' = NewCall
    /\ trace' = NoTrace
    /\ hist' = NoHist
    /\ calls' = 0
    /\ app' = FirstApp(c)

\* the first solver
CtorInit ==
    /\ cfg \in CtorConfigs
    /\ nx = GridNx(cfg)
    /\ ny = GridNy(cfg)
    /\ dx = GridDx(cfg)
    /\ dy = GridDy(cfg)
    /\ waveSpeed = WaveSpeed(cfg)
    /\ dt = FixedDt(cfg)
    /\ loss = Loss(cfg)
    /\ pmlSigma = buildPmlSigma(nx, ny, PmlWidth(cfg), dx, dy, waveSpeed)
    /\ pmlMask = buildPmlMask(nx, ny, PmlWidth(cfg))
    /\ sources = <<>>
    /\ epsRGrid = [i \in Cells |-> F32(Units.eps)]
    /\ sigmaGrid = FreshArray(cfg)
    /\ metalMask = <<>>
    /\ ex = FreshArray(cfg)
    /\ ey = FreshArray(cfg)
    /\ hz = FreshArray(cfg)
    /\ instantaneous = FreshArray(cfg)
    /\ avgPower = FreshArray(cfg)
    /\ avgMagnitude = FreshArray(cfg)
    /\ time = 0
    /\ accumulator = 0
    /\ stats = FreshStats
    /\ pc = "idle"
    /\ substepCount = 0
    /\ call = NewCall
    /\ trace = NoTrace
    /\ hist = NoHist
    /\ calls = 0
    /\ app = FirstApp(cfg)

CtorNext == \E c \in CtorConfigs : Construct(c)

CtorSpec == CtorInit /\ [][CtorNext]_vars

\* a / b <= c / d for a, c >= 0 and b, d > 0, by whole parts and remainders, so that
\* no product leaves the range of the integers
RECURSIVE LeqFrac(_, _, _, _)
LeqFrac(a, b, c, d) ==
    IF a \div b # c \div d THEN a \div b < c \div d
    ELSE IF a % b = 0 THEN TRUE
    ELSE IF c % d = 0 THEN FALSE
    ELSE LeqFrac(d, c % d, b, a % b)

\* the Courant bound for a time step of halfTicks half ticks:
\* (waveSpeed * dt)^2 * (1/dx^2 + 1/dy^2) <= cfl^2, as
\* (waveSpeed * dt / cfl)^2 <= (dx * dy)^2 / (dx^2 + dy^2)
CourantBound(halfTicks) ==
    LeqFrac((5 * waveSpeed * halfTicks) * (5 * waveSpeed * halfTicks), Cfl(cfg) * Cfl(cfg),
            (dx * dy) * (dx * dy), dx * dx + dy * dy)

RequestedWidth == Option(cfg.pmlWidth, DefaultPmlWidth * Units.width)

\* max(0, min(clamp(requested, 16, 32), floor(min(nx, ny) / 2) - 1)), in width units
StatedWidth ==
    Max(0, Min(clamp(RequestedWidth, MinPmlWidth * Units.width, MaxPmlWidth * Units.width),
               ((Min(nx, ny) \div 2) - 1) * Units.width))

\* the effective width is the stated expression, lies between 0 and min(nx, ny)/2 - 1,
\* is 0 exactly when min(nx, ny) <= 3, and with width 0 there is no sigma profile and
\* no mask, while otherwise the mask marks the cells nearer than the width to an edge
WidthAsStated ==
    /\ PmlWidth(cfg) = StatedWidth
    /\ 0 <= PmlWidth(cfg)
    /\ 2 * PmlWidth(cfg) <= (Min(nx, ny) - 2) * Units.width
    /\ (PmlWidth(cfg) = 0) <=> (Min(nx, ny) <= 3)
    /\ (PmlWidth(cfg) = 0) <=> (~HasMask(pmlMask) /\ ~HasMask(pmlSigma))
    /\ HasMask(pmlMask) <=> HasMask(pmlSigma)
    /\ HasMask(pmlMask) => \A i \in Cells : InPml(i) <=> InBand(i)

\* C17 as stated: for every grid and every requested band width the effective PML
\* width is max(0, min(clamp(requested, 16, 32), floor(min(nx, ny)/2) - 1)), hence an
\* integer with 0 <= width <= min(nx, ny)/2 - 1, and 0 (no sigma profile, no mask)
\* exactly when min(nx, ny) <= 3
C17_WidthIsInteger == WidthAsStated /\ PmlWidth(cfg) % Units.width = 0

\* C17, amended: the same, the width being an integer when the requested width is an
\* integer or is left out
C17_EffectiveWidth ==
    /\ WidthAsStated
    /\ RequestedWidth % Units.width = 0 => PmlWidth(cfg) % Units.width = 0

\* a request above the clamp on a grid wide enough for 32 cells of band, the request
\* being an integer
C17_Witness ==
    /\ RequestedWidth > MaxPmlWidth * Units.width
    /\ RequestedWidth % Units.width = 0
    /\ PmlWidth(cfg) = MaxPmlWidth * Units.width
    /\ HasMask(pmlMask)

\* ------------------------------------------------------------ rasterization
\* shapes to rasterize: circles and rectangles that overlap on both grids, with and
\* without a material, metal and not, with material values outside the stored range,
\* and shapes without extent (radius or size zero, negative or missing)
Wet == [preset |-> "custom", epsR |-> 4, sigma |-> 25000]
Bare(shape) == [shape EXCEPT !.hasMaterial = FALSE]
NoRadius(shape) == [shape EXCEPT !.radius = NoOption]
NoSize(shape) == [shape EXCEPT !.hasSize = FALSE]
GoodPool ==
    { Circle(0, 0, 15, Metal),
      Rectangle(0, 0, 60, 30, 0, Concrete),
      Bare(Circle(10, 10, 25, Metal)),
      Rectangle(10, 0, 40, 40, 45, Wet) }
ShapePool ==
    GoodPool \cup
    { Circle(0, 0, 0, Metal),
      Circle(10, 10, -5, Concrete),
      NoRadius(Circle(-10, 10, 20, Concrete)),
      Rectangle(0, 0, 0, 30, 0, Metal),
      Rectangle(10, 10, 20, -10, 0, Wet),
      NoSize(Rectangle(0, 0, 60, 30, 0, Concrete)) }
RasterLists ==
    {<<>>} \cup {<<a>> : a \in ShapePool} \cup {<<a, b>> : a \in GoodPool, b \in ShapePool}
        \cup {<<Circle(0, 0, 15, Metal), Circle(0, 0, 0, Metal), Rectangle(0, 0, 60, 30, 0, Concrete)>>,
              <<Circle(10, 10, -5, Concrete), Rectangle(0, 0, 60, 30, 0, Concrete),
                Circle(0, 0, 15, Metal)>>,
              <<Rectangle(0, 0, 60, 30, 0, Concrete), Circle(0, 0, 15, Metal),
                Rectangle(10, 0, 40, 40, 45, Wet)>>}

\* a solver whose material map is set again and again
RasterNext == \E shapes \in RasterLists : SetBarrierFromShapes(shapes)

RasterSpec == Init /\ [][RasterNext]_vars

\* setBarrierFromShapes has returned and no other call was made since
AfterBarrier == pc = "idle" /\ call.op = "setBarrierFromShapes"

\* a shape with an extent: a circle of positive radius, a rectangle with a size of
\* positive width and height
WellFormed(shape) ==
    IF shape.kind = "circle" THEN Option(shape.radius, 0) > 0
    ELSE shape.kind = "rectangle" /\ shape.hasSize /\ shape.width > 0 /\ shape.height > 0

\* the sample point of cell i lies in the shape
Contains(shape, i) ==
    /\ WellFormed(shape)
    /\ IF shape.kind = "circle" THEN InCircle(shape, cfg, dx, dy, i % nx, i \div nx)
       ELSE InRectangle(shape, cfg, dx, dy, i % nx, i \div nx)

\* the position in the list of the last shape that contains cell i, 0 when none does
LastShape(list, i) ==
    LET ks == {k \in 1 .. Len(list) : Contains(list[k], i)}
    IN IF ks = {} THEN 0 ELSE CHOOSE k \in ks : \A j \in ks : j <= k

\* the values a shape's material is stored with
StoredEps(shape) == F32(clamp(MaterialOf(shape).epsR, Units.eps, 20 * Units.eps))
StoredSigma(shape) == F32(clamp(MaterialOf(shape).sigma, 0, 200 * Units.sigma))

\* cell i has the free-space defaults
FreeSpace(i) == epsRGrid[i] = F32(Units.eps) /\ sigmaGrid[i] = 0 /\ ~IsMetal(i)

\* C18: after setBarrierFromShapes(L) with a list that is not empty, every cell has the
\* epsR, sigma and metal bit of the last shape of L that contains it (the metal bit set
\* exactly when that shape's preset is metal), and the free-space defaults when no shape
\* contains it.
C18_LastShapeWins ==
    (AfterBarrier /\ call.shapes # <<>>)
       => \A i \in Cells : \A k \in {LastShape(call.shapes, i)} :
             IF k = 0 THEN FreeSpace(i)
             ELSE /\ epsRGrid[i] = StoredEps(call.shapes[k])
                  /\ sigmaGrid[i] = StoredSigma(call.shapes[k])
                  /\ IsMetal(i) <=> (MaterialOf(call.shapes[k]).preset = "metal")

\* a cell in a metal shape and in a later shape that is not metal has lost its metal
\* bit and has the later shape's values, while another cell is still metal
C18_Witness ==
    /\ AfterBarrier
    /\ \E i \in Cells : \E j, k \in 1 .. Len(call.shapes) :
          /\ j < k
          /\ k = LastShape(call.shapes, i)
          /\ Contains(call.shapes[j], i)
          /\ MaterialOf(call.shapes[j]).preset = "metal"
          /\ MaterialOf(call.shapes[k]).preset # "metal"
          /\ StoredEps(call.shapes[k]) # StoredEps(call.shapes[j])
          /\ epsRGrid[i] = StoredEps(call.shapes[k])
          /\ ~IsMetal(i)
    /\ \E i \in Cells : IsMetal(i)

\* C19: setBarrierFromShapes with an empty list, called after any earlier material map,
\* leaves epsR = 1 and sigma = 0 at every cell and no metal cell.
C19_EmptyListClears ==
    (AfterBarrier /\ call.shapes = <<>>)
       => (\A i \in Cells : FreeSpace(i)) /\ ~HasMask(metalMask)

\* the empty list was passed to a solver whose map was not uniform
C19_Witness == AfterBarrier /\ call.shapes = <<>> /\ call.mapBefore /\ calls >= 2

\* the shapes of the list that have an extent
RECURSIVE WellFormedOnly(_)
WellFormedOnly(list) ==
    IF list = <<>> THEN <<>>
    ELSE IF WellFormed(Head(list)) THEN <<Head(list)>> \o WellFormedOnly(Tail(list))
    ELSE WellFormedOnly(Tail(list))

\* C20: a circle whose radius is zero, negative or missing and a rectangle whose width
\* or height is zero or negative or whose size is missing change no cell: the map is,
\* cell by cell, the one the other shapes of the list give.
C20_MalformedShapesSkipped ==
    (AfterBarrier /\ call.shapes # <<>>)
       => \A rest \in {WellFormedOnly(call.shapes)} :
             IF rest = <<>> THEN \A i \in Cells : FreeSpace(i)
             ELSE \A grids \in {buildMaterialGrids(cfg, nx, ny, rest)} : \A i \in Cells :
                     /\ epsRGrid[i] = grids.epsR[i]
                     /\ sigmaGrid[i] = grids.sigma[i]
                     /\ IsMetal(i) <=> (HasMask(grids.metalMask) /\ grids.metalMask[i] = 1)

\* a list with a shape without extent centred on a cell that another shape of the list
\* does not cover, and a cell that another shape changed
C20_Witness ==
    /\ AfterBarrier
    /\ \E k \in 1 .. Len(call.shapes) : \E i \in Cells :
          /\ ~WellFormed(call.shapes[k])
          /\ cfg.originX + (i % nx) * dx = call.shapes[k].cx
          /\ cfg.originY + (i \div nx) * dy = call.shapes[k].cy
          /\ FreeSpace(i)
    /\ \E i \in Cells : ~FreeSpace(i)

\* ------------------------------------------------------- the caller's sources
\* the positions the caller moves a source object to after it has passed the list
MovePositions == {<<-30, 0>>, <<0, 0>>}

\* the caller assigns source.position of the k-th object of the list it passed last;
\* the solver holds no reference to that object (setSources built its own entries)
MoveSource(k, pos) ==
    /\ pc = "idle"
    /\ call.given = call.passed
    /\ k \in 1 .. Len(call.given)
    /\ <<call.given[k].x, call.given[k].y>> # pos
    /\ call' = [call EXCEPT !.given[k].x = pos[1], !.given[k].y = pos[2]]
    /\ UNCHANGED <<appVars, configVars, sources, materialVars, fieldVars, clockVars, pc, substepCount,
                   trace, hist, calls>>

\* a solver that is given sources and stepped while the caller moves its source objects
SourceNext ==
    \/ \E list \in SourceLists : SetSources(list)
    \/ \E k \in 1 .. 3, pos \in MovePositions : MoveSource(k, pos)
    \/ \E e \in {Num(4)} : StepEnter(e)
    \/ StepAdvance
    \/ StepReturn

SourceSpec == Init /\ [][SourceNext]_vars

\* the sources of a list that are active, in the order of the list
ActiveOf(list) == SelectSeq(list, LAMBDA src : src.active)

\* C21: the active list holds exactly one entry, in order, for each active source of the
\* list passed last and nothing of an earlier list, and the index of each entry is the
\* one of the position the source had at that call, whatever the caller did to the
\* source since.
C21_SourcesReplacedWholesale ==
    /\ Len(sources) = Len(ActiveOf(call.passed))
    /\ \A k \in 1 .. Len(sources) :
          /\ sources[k] = ActiveSource(ActiveOf(call.passed)[k], cfg, nx, ny)
          /\ sources[k].index
                = indexFromWorld(ActiveOf(call.passed)[k].x, ActiveOf(call.passed)[k].y, cfg, nx, ny)

\* a list with a source that is not active replaced an earlier list, the caller moved
\* a source of it to a position of another cell, and the advance after that injected at
\* the cell of the position passed
C21_Witness ==
    /\ AfterAdvance
    /\ calls >= 3
    /\ Len(sources) < Len(call.passed)
    /\ \E k \in 1 .. Len(sources) :
          /\ indexFromWorld(ActiveOf(call.given)[k].x, ActiveOf(call.given)[k].y, cfg, nx, ny)
                # sources[k].index
          /\ trace.hzInjected[sources[k].index] # 0

\* ------------------------------------------------------------ world to index
\* coordinates far outside, just outside, on the edges of, and inside both domains, on
\* samples, halfway between samples and next to the halfway points
Coordinates == {-200, -51, -50, -40, -13, -7, -6, 0, 10, 13, 14, 50, 200}
PositionLists ==
    {<<Src(TRUE, x, y, "soft", "hz", "cw", 0)>> : x \in Coordinates, y \in Coordinates}

\* a solver that is given one source after another, each at its own position
IndexNext == \E list \in PositionLists : SetSources(list)

IndexSpec == Init /\ [][IndexNext]_vars

\* ix is the sample of the axis nearest to the coordinate p, and the edge sample for a
\* coordinate beyond an edge; the axis has n samples from origin to origin + size
NearestSample(ix, p, origin, size, n) ==
    /\ 0 <= ix /\ ix <= n - 1
    /\ p <= origin => ix = 0
    /\ p >= origin + size => ix = n - 1
    /\ (origin <= p /\ p <= origin + size)
          => 2 * Abs((p - origin) * (n - 1) - ix * size) <= size

\* C22: for every position, inside or outside the domain, indexFromWorld returns
\* iy * nx + ix with 0 <= ix <= nx - 1 and 0 <= iy <= ny - 1, ix and iy being the samples
\* nearest to the position, and the edge sample for a position beyond an edge.
C22_IndexInRange ==
    \A k \in 1 .. Len(sources) :
        \A pos \in {ActiveOf(call.passed)[k]} :
            /\ sources[k].index \in Cells
            /\ NearestSample(sources[k].index % nx, pos.x, cfg.originX, cfg.worldX, nx)
            /\ NearestSample(sources[k].index \div nx, pos.y, cfg.originY, cfg.worldY, ny)

\* a position beyond the domain on one axis and strictly inside it on the other
C22_Witness ==
    /\ call.op = "setSources"
    /\ Len(sources) = 1
    /\ call.passed[1].x > cfg.originX + cfg.worldX
    /\ cfg.originY < call.passed[1].y /\ call.passed[1].y < cfg.originY + cfg.worldY
    /\ sources[1].index % nx = nx - 1
    /\ sources[1].index \div nx \in 1 .. ny - 2

\* ------------------------------------------------- construction, any input
\* the cap of normalizeGrid on the grid counts
MAX_GRID == 512

\* configurations with grid counts that are negative, zero, one or above the cap, world
\* sizes that are negative, zero or above 500, and speeds that are negative, zero or
\* above the clamp; the grids are too narrow for a PML band
InvalidConfigs ==
    { [nx |-> gx, ny |-> gy, worldX |-> wx, worldY |-> wy,
       originX |-> 0, originY |-> 0,
       speed |-> s, attenuation |-> 0, cfl |-> NoOption, pmlWidth |-> NoOption] :
        gx \in {-3, 0, 1, 2, 3}, gy \in {1, 3}, wx \in {-50, 0, 100}, wy \in {0, 100},
        s \in {-20, 0, 20, 40} }
        \cup
    { [nx |-> 600, ny |-> 2, worldX |-> 6000, worldY |-> wy,
       originX |-> 0, originY |-> 0,
       speed |-> 20, attenuation |-> 0, cfl |-> NoOption, pmlWidth |-> NoOption] :
        wy \in {100, 6000} }

\* new EMSolver2D(config) with whatever the caller passes
AnyCtorNext == \E c \in InvalidConfigs : Construct(c)

AnyCtorSpec == Init /\ [][AnyCtorNext]_vars

\* C23: whatever domain size, grid counts and wave speed are passed in, the constructed
\* solver has 2 <= nx, ny <= 512, dx > 0, dy > 0, a wave speed in [0.05, 50] and a
\* finite dt > 0.
C23_ConstructionClamped ==
    /\ 2 <= nx /\ nx <= MAX_GRID
    /\ 2 <= ny /\ ny <= MAX_GRID
    /\ dx > 0 /\ dy > 0
    /\ (5 * Units.speed) \div 100 <= waveSpeed /\ waveSpeed <= 50 * Units.speed
    /\ dt > 0

\* ------------------------------------------------------ the phases of an advance
\* the fields after the phases (1) to (6) applied in the order of the list: metal cells
\* zeroed, Hz from curl(E), legacy injection, Ex and Ey from curl(Hz), injection of the
\* active sources, outer ring zeroed
FieldsInOrder ==
    LET p1 == [ex |-> ZeroMetal(ex), ey |-> ZeroMetal(ey), hz |-> ZeroMetal(hz)]
        p2 == [p1 EXCEPT !.hz = UpdateHz(p1.ex, p1.ey, p1.hz)]
        p3 == [p2 EXCEPT !.hz = LegacyInject(p2.hz, sources, time)]
        p4 == [p3 EXCEPT !.ex = UpdateEx(p3.ex, p3.hz), !.ey = UpdateEy(p3.ey, p3.hz)]
        p5 == InjectSources(p4, sources, time)
    IN [ex |-> ZeroRing(p5.ex), ey |-> ZeroRing(p5.ey), hz |-> ZeroRing(p5.hz),
        stencilHz |-> p2.hz, injected |-> p5]

\* C24: every advance runs its phases once each in the order (1) metal cells zeroed,
\* (2) Hz update, (3) legacy Hz injection, (4) Ex/Ey update, (5) injection of the active
\* sources, (6) outer ring zeroed, (7) magnitudes and moving averages, (8) statistics
\* and clock.
C24_PhaseOrder ==
    [][BeforeAdvance
          => \A f \in {FieldsInOrder} :
                /\ ex' = f.ex /\ ey' = f.ey /\ hz' = f.hz
                /\ trace'.hzStencil = f.stencilHz
                /\ trace'.hzInjected = f.injected.hz
                /\ \A i \in Cells :
                      /\ instantaneous'[i]
                            = (IF InPml(i) THEN 0 ELSE F32(Magnitude(f.ex, f.ey, i)))
                      /\ avgPower'[i]
                            = (IF InPml(i) THEN 0
                               ELSE F32(Blend(avgPower[i],
                                              Magnitude(f.ex, f.ey, i) * Magnitude(f.ex, f.ey, i))))
                /\ stats'.maxInstantaneous
                      = MaxValues([i \in Cells |->
                                     IF InPml(i) THEN 0 ELSE Magnitude(f.ex, f.ey, i)], nx * ny)
                /\ time' = time + dt
                /\ stats'.time = time']_vars

\* an advance with a metal mask and a source, in which the injection changed what the
\* update had computed and the zeroing of the ring changed what the injection had left
C24_Witness ==
    /\ AfterAdvance
    /\ HasMask(metalMask)
    /\ Len(sources) > 0
    /\ trace.hzStencil # trace.hzInjected
    /\ trace.hzInjected # hz
    /\ stats.time = time

\* Hz as the Hz update leaves it, before the legacy injection
HzBeforeLegacy == UpdateHz(ZeroMetal(ex), ZeroMetal(ey), ZeroMetal(hz))

\* C25: the legacy injection between the Hz update and the E update adds its
\* continuous-wave term to Hz only for sources that excite Hz with soft injection and a
\* continuous waveform: wherever it changes Hz there is such a source.
C25_LegacyOnlySoftHz ==
    BeforeAdvance
       => \A before \in {HzBeforeLegacy} : \A after \in {LegacyInject(before, sources, time)} :
             \A i \in Cells :
                after[i] # before[i]
                   => \E k \in 1 .. Len(sources) :
                         /\ sources[k].index = i
                         /\ sources[k].excite = "hz"
                         /\ sources[k].injection = "soft"
                         /\ sources[k].waveform = "cw"

\* ------------------------------------------------- the stencil passes in place
\* the Hz pass as the loop runs it: the cells are visited one after the other in the
\* given order and each visit assigns hz[idx] in the array the later visits read
RECURSIVE HzPassInPlace(_, _, _, _)
HzPassInPlace(order, e1, e2, h) ==
    IF order = <<>> THEN h
    ELSE LET i == Head(order)
         IN HzPassInPlace(Tail(order), e1, e2,
                          IF (i % nx) < nx - 1 /\ (i \div nx) < ny - 1 /\ ~IsMetal(i)
                          THEN [h EXCEPT ![i] = F32(HzStencil(e1, e2, h, i))] ELSE h)

\* the Ex/Ey pass as the loop runs it; f = [ex, ey]
RECURSIVE EPassInPlace(_, _, _)
EPassInPlace(order, f, h) ==
    IF order = <<>> THEN f
    ELSE LET i == Head(order)
         IN EPassInPlace(Tail(order),
                         IF Interior(i) /\ ~IsMetal(i)
                         THEN [ex |-> [f.ex EXCEPT ![i] = F32(ExStencil(f.ex, h, i))],
                               ey |-> [f.ey EXCEPT ![i] = F32(EyStencil(f.ey, h, i))]]
                         ELSE f, h)

\* orders to visit the cells in: row by row as the loops do, backwards, column by
\* column, and the even cells before the odd ones
CellOrders ==
    LET n == nx * ny
    IN { [k \in 1 .. n |-> k - 1],
         [k \in 1 .. n |-> n - k],
         [k \in 1 .. n |-> ((k - 1) % ny) * nx + ((k - 1) \div ny)],
         [k \in 1 .. n |-> IF 2 * (k - 1) < n THEN 2 * (k - 1) ELSE 2 * (k - 1) - n + 1 - (n % 2)] }

\* C26: within the Hz pass and within the Ex/Ey pass every cell writes its own slot only
\* and reads nothing another cell of the pass writes: the fields after the pass are the
\* same in whatever order the cells are visited.
C26_PassesOrderFree ==
    BeforeAdvance
       => \A e1 \in {ZeroMetal(ex)} : \A e2 \in {ZeroMetal(ey)} : \A h1 \in {ZeroMetal(hz)} :
          \A h2 \in {UpdateHz(e1, e2, h1)} : \A h3 \in {LegacyInject(h2, sources, time)} :
          \A order \in CellOrders :
             /\ HzPassInPlace(order, e1, e2, h1) = h2
             /\ EPassInPlace(order, [ex |-> e1, ey |-> e2], h3)
                   = [ex |-> UpdateEx(e1, h3), ey |-> UpdateEy(e2, h3)]

\* an advance starts with Hz and Ex not zero at neighbouring cells of the interior
C26_Witness ==
    /\ BeforeAdvance
    /\ \E i \in Cells :
          /\ Interior(i) /\ Interior(i + 1)
          /\ hz[i] # 0 /\ hz[i + 1] # 0 /\ hz[i] # hz[i + 1]
          /\ ex[i] # 0

\* ---------------------------------------------- the application's main loop
\* a shape as the store keeps it: normalized, with a name that no grid depends on
Named(shape, name) ==
    [kind |-> shape.kind, cx |-> shape.cx, cy |-> shape.cy, radius |-> shape.radius,
     hasSize |-> shape.hasSize, width |-> shape.width, height |-> shape.height,
     angle |-> shape.angle, hasMaterial |-> shape.hasMaterial, material |-> shape.material,
     name |-> name]

\* the states the store is updated to: the domain and the solver settings, the sources,
\* the shapes, simulation.running, simulation.timeScale and visualization.mode
Damped == [nx |-> 3, ny |-> 3, worldX |-> 26, worldY |-> 26, originX |-> -13, originY |-> -13,
           speed |-> 20, attenuation |-> 10, cfl |-> NoOption, pmlWidth |-> NoOption]
Store(c, srcs, shps, running, scale, mode) ==
    [cfg |-> c, model |-> "em2d", sources |-> srcs, shapes |-> shps, running |-> running,
     timeScale |-> Num(scale), mode |-> mode]
Emitter == <<Src(TRUE, 0, 0, "soft", "hz", "cw", 0)>>
Circle1 == <<Named(Circle(5, 5, 8, Metal), "Circle 1")>>
Pillar == <<Named(Circle(5, 5, 8, Metal), "Pillar")>>
Wall == <<Named(Rectangle(0, 0, 10, 30, 0, Concrete), "Wall")>>
StoreStates ==
    {FirstStore(c) : c \in Configs \cup {Damped}}
    \cup {Store(c, Emitter, Circle1, TRUE, 4, "2d") : c \in Configs}
    \cup {Store(Damped, Emitter, Wall, TRUE, 9, "2d")}
    \cup {Store(c, Emitter, Circle1, TRUE, -1, "2d") : c \in Configs}
    \cup {Store(CHOOSE c \in Configs : c.nx = 3, s[1], s[2], s[3], s[4], s[5]) :
             s \in {<<Emitter, <<>>, TRUE, 4, "2d">>, <<Emitter, Pillar, TRUE, 4, "2d">>,
                    <<Emitter, Circle1, FALSE, 4, "2d">>, <<Emitter, Circle1, TRUE, 0, "3d">>,
                    <<<<>>, Wall, TRUE, 4, "2d">>}}

\* now - lastTime of a frame, in milliseconds
FrameDeltas == {-16, 50, 300}

\* setBarrierFromShapes(shapes) on a solver of the given configuration and grid
BarrierOf(c, w, h, shapes) ==
    IF shapes = <<>>
    THEN [epsR |-> [i \in CellsOf(w, h) |-> F32(Units.eps)],
          sigma |-> [i \in CellsOf(w, h) |-> 0], metalMask |-> <<>>]
    ELSE buildMaterialGrids(c, w, h, shapes)

\* createSolverFromState(state): new EMSolver2D({ domain, solver }), then
\* setSources(state.sources) and setBarrierFromShapes(state.shapes)
createSolverFromState(st) ==
    /\ cfg' = st.cfg
    /\ nx' = GridNx(st.cfg)
    /\ ny' = GridNy(st.cfg)
    /\ dx' = GridDx(st.cfg)
    /\ dy' = GridDy(st.cfg)
    /\ waveSpeed' = WaveSpeed(st.cfg)
    /\ dt' = FixedDt(st.cfg)
    /\ loss' = Loss(st.cfg)
    /\ pmlSigma' = buildPmlSigma(GridNx(st.cfg), GridNy(st.cfg), PmlWidth(st.cfg),
                                 GridDx(st.cfg), GridDy(st.cfg), WaveSpeed(st.cfg))
    /\ pmlMask' = buildPmlMask(GridNx(st.cfg), GridNy(st.cfg), PmlWidth(st.cfg))
    /\ sources' = FilterMap(st.sources, st.cfg, GridNx(st.cfg), GridNy(st.cfg))
    /\ \E grids \in {BarrierOf(st.cfg, GridNx(st.cfg), GridNy(st.cfg), st.shapes)} :
          /\ epsRGrid' = grids.epsR
          /\ sigmaGrid' = grids.sigma
          /\ metalMask' = grids.metalMask
    /\ ex' = FreshArray(st.cfg)
    /\ ey' = FreshArray(st.cfg)
    /\ hz' = FreshArray(st.cfg)
    /\ instantaneous' = FreshArray(st.cfg)
    /\ avgPower' = FreshArray(st.cfg)
    /\ avgMagnitude' = FreshArray(st.cfg)
    /\ time' = 0
    /\ accumulator' = 0
    /\ stats' = FreshStats
    /\ substepCount' = 0
    /\ call' = [NewCall EXCEPT !.shapes = st.shapes, !.passed = st.sources,
                               !.given = st.sources]
    /\ trace' = NoTrace
    /\ hist' = NoHist

\* the store's subscriber: a new solver when the solver key changed, else the sources
\* again and the shapes when their key changed
AppStoreUpdate(next) ==
    /\ pc = "idle"
    /\ next # app.state
    /\ \E nextKey \in {getSolverKey(next)} :
          IF nextKey # app.solverKey
          THEN /\ createSolverFromState(next)
               /\ app' = [state |-> next, solverKey |-> nextKey,
                          shapesKey |-> getShapesKey(next), event |-> "update",
                          recreated |-> TRUE, rasterized |-> TRUE, stepped |-> FALSE]
               /\ UNCHANGED <<pc, calls>>
          ELSE /\ sources' = FilterMap(next.sources, cfg, nx, ny)
               /\ \E nextShapesKey \in {getShapesKey(next)} :
                     IF nextShapesKey # app.shapesKey
                     THEN /\ \E grids \in {BarrierOf(cfg, nx, ny, next.shapes)} :
                                /\ epsRGrid' = grids.epsR
                                /\ sigmaGrid' = grids.sigma
                                /\ metalMask' = grids.metalMask
                          /\ call' = [Call("setBarrierFromShapes", Num(0))
                                        EXCEPT !.shapes = next.shapes,
                                               !.passed = next.sources,
                                               !.given = next.sources]
                          /\ app' = [state |-> next, solverKey |-> app.solverKey,
                                     shapesKey |-> nextShapesKey, event |-> "update",
                                     recreated |-> FALSE, rasterized |-> TRUE,
                                     stepped |-> FALSE]
                     ELSE /\ UNCHANGED materialVars
                          /\ call' = [Call("setSources", Num(0))
                                        EXCEPT !.passed = next.sources,
                                               !.given = next.sources]
                          /\ app' = [state |-> next, solverKey |-> app.solverKey,
                                     shapesKey |-> app.shapesKey, event |-> "update",
                                     recreated |-> FALSE, rasterized |-> FALSE,
                                     stepped |-> FALSE]
               /\ UNCHANGED <<configVars, fieldVars, clockVars, pc, substepCount, trace, hist,
                              calls>>

\* Math.min(0.1, Math.max(0, rawDelta)), in milliseconds
ClampedDelta(raw) == Min(100, Max(0, raw))

\* clamp(Number.isFinite(timeScale) ? timeScale : 1, 0, 4)
FrameTimeScale(st) == clamp(IF IsFinite(st.timeScale) THEN st.timeScale.v ELSE 1, 0, 4)

\* a frame that steps whether or not the simulation runs
FrameStepsAlways(st) == TRUE

\* isRunning && timeScale > 0
FrameSteps(st) == st.running /\ FrameTimeScale(st) > 0

\* clampedDelta * timeScale, in ticks
FrameElapsed(raw, st) == Num((ClampedDelta(raw) * FrameTimeScale(st) * Units.tick) \div 1000)

\* one animation frame, up to the return of solver.step's argument test: the loop of an
\* accepted step runs in StepAdvance and StepReturn before the next event
AppFrame(raw) ==
    /\ pc = "idle"
    /\ IF FrameSteps(app.state)
       THEN \E e \in {FrameElapsed(raw, app.state)} :
               /\ IF Accepted(e)
                  THEN /\ calls < MaxCalls
                       /\ calls' = calls + 1
                       /\ accumulator' = accumulator + e.v
                       /\ substepCount' = 0
                       /\ pc' = "loop"
                       /\ call' = Call("step", e)
                       /\ hist' = [hist EXCEPT !.sum = @ + e.v,
                                               !.small = @ /\ e.v <= maxSubstepsPerFrame * dt]
                  ELSE /\ call' = Call("stepIgnored", Num(0))
                       /\ UNCHANGED <<accumulator, substepCount, pc, hist, calls>>
               /\ app' = [app EXCEPT !.event = "frame", !.recreated = FALSE,
                                     !.rasterized = FALSE, !.stepped = TRUE]
       ELSE /\ call' = Call("frame", Num(0))
            /\ app' = [app EXCEPT !.event = "frame", !.recreated = FALSE,
                                  !.rasterized = FALSE, !.stepped = FALSE]
            /\ UNCHANGED <<accumulator, substepCount, pc, hist, calls>>
    /\ UNCHANGED <<configVars, sources, materialVars, fieldVars, time, stats, trace>>

AppNext ==
    \/ \E next \in StoreStates : AppStoreUpdate(next)
    \/ \E raw \in FrameDeltas : AppFrame(raw)
    \/ StepAdvance
    \/ StepReturn
    \/ Reset

AppSpec == Init /\ [][AppNext]_vars

\* a step of the store's subscriber: the only steps that change the store's state
StoreUpdated == app'.state # app.state

SetterCalled(op) == pc = "idle" /\ calls' = calls + 1 /\ call'.op = op

\* C28: setSources changes only the source list and setBarrierFromShapes only the
\* material grids: neither changes Ex, Ey, Hz, the magnitude and average arrays, the
\* simulation time, the accumulator, the statistics, dt or the PML profile, and
\* neither changes what the other one sets.
C28_SettersKeepFields ==
    [][/\ SetterCalled("setSources") \/ SetterCalled("setBarrierFromShapes")
          => /\ ex' = ex /\ ey' = ey /\ hz' = hz
             /\ instantaneous' = instantaneous /\ avgPower' = avgPower
             /\ avgMagnitude' = avgMagnitude
             /\ time' = time /\ accumulator' = accumulator /\ stats' = stats
             /\ dt' = dt /\ pmlMask' = pmlMask /\ pmlSigma' = pmlSigma
       /\ SetterCalled("setSources") => UNCHANGED materialVars
       /\ SetterCalled("setBarrierFromShapes") => sources' = sources]_vars

\* setBarrierFromShapes has put metal on the grid of a simulation that had run, with
\* sources in place, fields that are not zero and time left in the accumulator
C28_Witness ==
    /\ call.op = "setBarrierFromShapes" /\ call.dirtyBefore
    /\ sources # <<>> /\ metalMask # <<>>
    /\ time > 0 /\ stats.maxInstantaneous > 0
    /\ \E i \in Cells : hz[i] # 0

\* a step that is one animation frame
FrameRan ==
    /\ pc = "idle" /\ ~StoreUpdated /\ app'.event = "frame"
    /\ call'.op \in {"frame", "step", "stepIgnored"}

\* C29: the solver is recreated, with fields and simulation time at zero and the
\* store's sources and shapes applied, exactly on the store updates that change the
\* domain, the solver settings or the model; every other store update keeps the solver
\* with its fields, time and configuration; and a frame makes no step call while
\* simulation.running is false or the time scale is 0.
C29_RecreatedOnKeyChange ==
    [][/\ StoreUpdated
          => /\ app'.recreated
                <=> \/ app'.state.cfg # app.state.cfg
                    \/ app'.state.model # app.state.model
             /\ app'.solverKey = getSolverKey(app'.state)
             /\ app'.recreated
                => /\ cfg' = app'.state.cfg /\ nx' = GridNx(cfg') /\ ny' = GridNy(cfg')
                   /\ dt' = FixedDt(cfg')
                   /\ \A i \in CellsOf(nx', ny') :
                         /\ ex'[i] = 0 /\ ey'[i] = 0 /\ hz'[i] = 0
                         /\ instantaneous'[i] = 0 /\ avgPower'[i] = 0 /\ avgMagnitude'[i] = 0
                   /\ time' = 0 /\ accumulator' = 0 /\ stats' = FreshStats
                   /\ sources' = FilterMap(app'.state.sources, cfg', nx', ny')
                   /\ \A grids \in {BarrierOf(cfg', nx', ny', app'.state.shapes)} :
                         /\ epsRGrid' = grids.epsR
                         /\ sigmaGrid' = grids.sigma
                         /\ metalMask' = grids.metalMask
             /\ ~app'.recreated => UNCHANGED <<configVars, fieldVars, clockVars>>
       /\ FrameRan /\ (~app.state.running \/ app.state.timeScale = Num(0))
          => /\ ~app'.stepped /\ call'.op = "frame"
             /\ UNCHANGED <<fieldVars, clockVars, pc>>]_vars

\* a store update changed the attenuation of a simulation that had run with a source
\* and a shape: there is a new solver with both applied and no field yet
C29_Witness ==
    /\ app.event = "update" /\ app.recreated
    /\ app.state.cfg = Damped
    /\ calls > 0 /\ time = 0
    /\ sources # <<>> /\ \E i \in Cells : sigmaGrid[i] # 0

\* the distance of a cell to the nearest edge of the grid, in cells
NearestEdge(i) == Min(EdgeDist(i % nx, nx), EdgeDist(i \div nx, ny))

\* the cell (x, y) and its three neighbours to the right and below are inside the
\* grid's outer ring and outside the mask
UnmaskedBlock(x, y) ==
    /\ x >= 1 /\ x + 2 < nx
    /\ y >= 1 /\ y + 2 < ny
    /\ \A j \in {y * nx + x, y * nx + x + 1, (y + 1) * nx + x, (y + 1) * nx + x + 1} :
          pmlMask[j] = 0

\* C30: on every constructed solver with a PML width w > 0 the mask and the sigma
\* profile agree and leave an interior: a cell is masked exactly when its distance to
\* the nearest edge is below w, and exactly then sigma is not zero there; along a row
\* and along a column sigma does not increase with the distance to the edge; and a
\* block of 2 x 2 unmasked interior cells remains.
C30_MaskAndSigmaAgree ==
    PmlWidth(cfg) > 0
       => /\ HasMask(pmlMask) /\ HasMask(pmlSigma)
          /\ \A i \in Cells :
                /\ pmlMask[i] = 1 <=> NearestEdge(i) * Units.width < PmlWidth(cfg)
                /\ pmlMask[i] = 1 <=> pmlSigma[i] # 0
                /\ pmlSigma[i] >= 0
          /\ \A y \in 0 .. ny - 1 : \A x \in 0 .. nx - 2 :
                /\ EdgeDist(x + 1, nx) > EdgeDist(x, nx)
                      => pmlSigma[y * nx + x + 1] <= pmlSigma[y * nx + x]
                /\ EdgeDist(x + 1, nx) < EdgeDist(x, nx)
                      => pmlSigma[y * nx + x + 1] >= pmlSigma[y * nx + x]
          /\ \A y \in 0 .. ny - 2 : \A x \in 0 .. nx - 1 :
                /\ EdgeDist(y + 1, ny) > EdgeDist(y, ny)
                      => pmlSigma[(y + 1) * nx + x] <= pmlSigma[y * nx + x]
                /\ EdgeDist(y + 1, ny) < EdgeDist(y, ny)
                      => pmlSigma[(y + 1) * nx + x] >= pmlSigma[y * nx + x]
          /\ \E y \in 0 .. ny - 1 : \E x \in 0 .. nx - 1 : UnmaskedBlock(x, y)

\* a band of 16.5 cells on a grid of 36 x 38: 17 columns are masked on either side and
\* two columns remain
C30_Witness ==
    /\ nx = 36 /\ ny = 38
    /\ PmlWidth(cfg) = 33
    /\ HasMask(pmlMask)
    /\ Cardinality({x \in 0 .. nx - 1 : pmlMask[18 * nx + x] = 0}) = 2
====
